---- MODULE Spec2Model ----
(***************************************************************************)
(* Verification model of the governed event-processing engine              *)
(* (ai_risk_engine): the ingestion transaction EventService.create_event   *)
(* behind POST /events, the workflow runtime RiskWorkflow.run /           *)
(* ComplianceWorkflow.run, and the circuit breaker CircuitBreaker.call.    *)
(*                                                                         *)
(* Granularity: every `await` of the source is one action.  The code that  *)
(* follows an await up to the next await (or the return / raise) has no    *)
(* suspension point and belongs to the same action.  An adapter call that  *)
(* raises has had no effect on the adapter.                                *)
(***************************************************************************)
EXTENDS Naturals, Sequences, FiniteSets, Bags, TLC

(***************************************************************************)
(* Bounds of the model.                                                    *)
(***************************************************************************)
\* HTTP requests (create_event calls) in one behaviour
MaxReq == 2
\* workflow run calls in one behaviour
MaxRun == 2
\* calls through the circuit breaker in one behaviour
MaxCall == 4
\* the last reading of the monotonic clock
MaxTime == 4
\* submissions to the bulkhead in one behaviour
MaxSub == 4
\* tasks that take and release locks, and their calls in one behaviour
MaxHolder == 2
MaxLockCalls == 3
\* allow_request calls in one behaviour
MaxAllow == 4

(***************************************************************************)
(* Program constants.                                                      *)
(***************************************************************************)
IDEMPOTENCY_PREFIX == "idempotency:"
EVENT_STORE_PREFIX == "event:"
EXCHANGE_RISK_EVENTS == "risk_events"
ROUTING_RISK_CREATED == "risk.created"
ROUTING_COMPLIANCE_CREATED == "compliance.created"

\* EventStatus: member name -> value (the string stored and sent)
EventStatus == [RECEIVED |-> "received", CREATED |-> "created",
                VALIDATED |-> "validated", PROCESSING |-> "processing",
                APPROVED |-> "approved", REJECTED |-> "rejected",
                FAILED |-> "failed"]

\* EventStatus(value): the member whose value is v
EventStatusOf(v) == CHOOSE n \in DOMAIN EventStatus : EventStatus[n] = v

(***************************************************************************)
(* Inputs.                                                                 *)
(***************************************************************************)
Req == 1 .. MaxReq
Tenants == {"t1", "t2"}
IdemKeys == {"k1"}

\* Optional[Dict]: None is <<>>, a dict d is <<d>> with d a set of <<key, value>>
None == <<>>
Some(d) == <<d>>

\* The events handed to create_event: the router builds status CREATED and a
\* metadata dict holding the request's version; the service itself accepts
\* any BaseEvent, so other statuses and a missing metadata occur too.
EventInputs ==
    { [type |-> "RiskEvent", status |-> "CREATED",
       metadata |-> Some({<<"version", "2.0">>})],
      [type |-> "ComplianceEvent", status |-> "VALIDATED", metadata |-> None] }

\* str(uuid.uuid4()) of the n-th request: fresh for every request
Uuid4(n) == "e" \o ToString(n)
\* the correlation id the middleware attaches to the n-th request
CorrelationId(n) == "c" \o ToString(n)
\* datetime.utcnow() of the n-th request and its ISO-8601 rendering
UtcNow(n) == n
isoformat(d) == "T" \o ToString(d)
fromisoformat(s) == CHOOSE d \in 0 .. (MaxReq + 1) : isoformat(d) = s

(***************************************************************************)
(* Pure helpers of event_service.py / event_repository_redis.py.           *)
(***************************************************************************)
\* variant: the record key leaves the tenant out
_idempotency_key_no_tenant(tenant_id, idempotency_key) ==
    IDEMPOTENCY_PREFIX \o idempotency_key

_idempotency_key(tenant_id, idempotency_key) ==
    IDEMPOTENCY_PREFIX \o tenant_id \o ":" \o idempotency_key

_event_key(tenant_id, event_id) ==
    EVENT_STORE_PREFIX \o tenant_id \o ":" \o event_id

_routing_key(event) ==
    IF event.type = "RiskEvent" THEN ROUTING_RISK_CREATED
    ELSE IF event.type = "ComplianceEvent" THEN ROUTING_COMPLIANCE_CREATED
    ELSE "event.created"

_event_type_name(event) == event.type

\* the "version" entry of a metadata dict, when it has one
MetaVersion(metadata) ==
    IF metadata # None /\ \E p \in metadata[1] : p[1] = "version"
    THEN (CHOOSE p \in metadata[1] : p[1] = "version")[2]
    ELSE "1.0"

\* variant: save keeps the status the input event carried
PersistedEvent_keeps_status(event, correlation_id) ==
    [event_id |-> event.event_id, tenant_id |-> event.tenant_id,
     correlation_id |-> correlation_id, status |-> event.status,
     created_at |-> event.created_at, metadata |-> event.metadata,
     version |-> MetaVersion(event.metadata)]

\* RedisEventRepository.save builds this PersistedEvent
PersistedEvent(event, correlation_id) ==
    [event_id |-> event.event_id, tenant_id |-> event.tenant_id,
     correlation_id |-> correlation_id, status |-> "RECEIVED",
     created_at |-> event.created_at, metadata |-> event.metadata,
     version |-> MetaVersion(event.metadata)]

\* json.dumps(payload) of RedisEventRepository.save
EventPayloadJson(p) ==
    << <<"event_id", p.event_id>>, <<"tenant_id", p.tenant_id>>,
       <<"correlation_id", p.correlation_id>>,
       <<"status", EventStatus[p.status]>>,
       <<"created_at", isoformat(p.created_at)>>,
       <<"metadata", p.metadata>>, <<"version", p.version>> >>

\* RedisEventRepository.get: json.loads and rebuild
EventFromJson(j) ==
    [event_id |-> j[1][2], tenant_id |-> j[2][2], correlation_id |-> j[3][2],
     status |-> EventStatusOf(j[4][2]), created_at |-> fromisoformat(j[5][2]),
     metadata |-> j[6][2], version |-> j[7][2]]

_persisted_to_response(p) ==
    [event_id |-> p.event_id, tenant_id |-> p.tenant_id, status |-> p.status,
     created_at |-> p.created_at, metadata |-> p.metadata,
     version |-> p.version]

\* EventResponse.model_dump_json
model_dump_json(r) ==
    << <<"event_id", r.event_id>>, <<"tenant_id", r.tenant_id>>,
       <<"status", EventStatus[r.status]>>,
       <<"created_at", isoformat(r.created_at)>>,
       <<"metadata", r.metadata>>, <<"version", r.version>> >>

\* EventResponse.model_validate_json
model_validate_json(j) ==
    [event_id |-> j[1][2], tenant_id |-> j[2][2],
     status |-> EventStatusOf(j[3][2]), created_at |-> fromisoformat(j[4][2]),
     metadata |-> j[5][2], version |-> j[6][2]]

\* the message create_event hands to the publisher, with its routing
BrokerMessage(event, p, idempotency_key) ==
    [exchange |-> EXCHANGE_RISK_EVENTS, routing_key |-> _routing_key(event),
     event_id |-> p.event_id, tenant_id |-> p.tenant_id,
     correlation_id |-> p.correlation_id,
     event_type |-> _event_type_name(event),
     status |-> EventStatus[p.status], idempotency_key |-> idempotency_key]

(***************************************************************************)
(* Workflow runtime: states, nodes and the snapshot store.                 *)
(* The wall-clock fields of a trail entry and of an audit record ("at",    *)
(* execution_ms, timestamp_utc) are left out: no node reads them.          *)
(***************************************************************************)
DEFAULT_MODEL_VERSION == "simulated@1"
\* CircuitBreaker.__init__: failure_threshold, recovery_timeout_seconds
DEFAULT_FAILURE_THRESHOLD == 5
DEFAULT_RECOVERY_TIMEOUT == 30
\* TenantRateLimiter.__init__: requests_per_window, window_seconds
DEFAULT_REQUESTS_PER_WINDOW == 100
DEFAULT_WINDOW_SECONDS == 60
\* BulkheadExecutor.__init__: max_concurrent, max_queued
DEFAULT_MAX_CONCURRENT == 10
DEFAULT_MAX_QUEUED == 100
DEFAULT_PROMPT_VERSION == 1
NODE_ORDER == <<"retrieval", "policy_validation", "risk_scoring", "guardrails",
                "decision">>
WORKFLOW_ACTOR == "workflow"
HIGH_RISK_THRESHOLD == 75
WORKFLOW_PREFIX == "workflow"

\* RiskState(...): the fields not given take their defaults
RiskState(event_id, tenant_id, correlation_id, raw_event) ==
    [event_id |-> event_id, tenant_id |-> tenant_id,
     correlation_id |-> correlation_id, raw_event |-> raw_event,
     retrieved_context |-> None, policy_result |-> None, risk_score |-> None,
     guardrail_result |-> None, final_decision |-> None,
     model_version |-> DEFAULT_MODEL_VERSION,
     prompt_version |-> DEFAULT_PROMPT_VERSION,
     audit_trail |-> <<>>, idempotency_key |-> None]

\* ComplianceState(...): RiskState's fields, regulatory_flags and
\* approval_required
ComplianceState(event_id, tenant_id, correlation_id, raw_event, flags) ==
    [event_id |-> event_id, tenant_id |-> tenant_id,
     correlation_id |-> correlation_id, raw_event |-> raw_event,
     retrieved_context |-> None, policy_result |-> None, risk_score |-> None,
     guardrail_result |-> None, regulatory_flags |-> flags,
     approval_required |-> FALSE, final_decision |-> None,
     model_version |-> DEFAULT_MODEL_VERSION,
     prompt_version |-> DEFAULT_PROMPT_VERSION,
     audit_trail |-> <<>>, idempotency_key |-> None]

\* the fields in the order pydantic writes them
RiskStateFields ==
    <<"event_id", "tenant_id", "correlation_id", "raw_event",
      "retrieved_context", "policy_result", "risk_score", "guardrail_result",
      "final_decision", "model_version", "prompt_version", "audit_trail",
      "idempotency_key">>
ComplianceStateFields ==
    <<"event_id", "tenant_id", "correlation_id", "raw_event",
      "retrieved_context", "policy_result", "risk_score", "guardrail_result",
      "regulatory_flags", "approval_required", "final_decision",
      "model_version", "prompt_version", "audit_trail", "idempotency_key">>

\* state.transition(**updates): a copy of state with the updates applied
transition(state, updates) ==
    [f \in DOMAIN state |-> IF f \in DOMAIN updates THEN updates[f] ELSE state[f]]

\* raw.get("metadata") or {}, then .get(key, default): the metadata dict is a
\* record of its three keys, a key that is absent holding its .get default
MetadataOf(raw) ==
    IF raw.metadata = None
    THEN [category |-> "", policy_override |-> FALSE, blocked_pattern |-> FALSE]
    ELSE raw.metadata[1]

\* raw.get("event_type", default)
EventTypeOf(raw, default) ==
    IF raw.event_type = None THEN default ELSE raw.event_type[1]

\* state.risk_score or 0.0
ScoreOrZero(state) == IF state.risk_score = None THEN 0 ELSE state.risk_score[1]

\* the trail_entry dict of a node; extra holds the node's own key
trail_entry(state, node, action, extra) ==
    [node |-> node, action |-> action, model_version |-> state.model_version,
     prompt_version |-> state.prompt_version] @@ extra

\* AuditLogger.log_action builds this record and saves it
AuditRecord(state, action, reason, extra) ==
    [actor |-> WORKFLOW_ACTOR, tenant_id |-> state.tenant_id, action |-> action,
     resource_type |-> "workflow", resource_id |-> state.event_id,
     reason |-> reason, correlation_id |-> state.correlation_id,
     metadata |-> [model_version |-> state.model_version,
                   prompt_version |-> state.prompt_version] @@ extra]

\* variant: the node's trail holds its own entry only
NodeEffect_trail_restarts(state, node, action, reason, extra, updates) ==
    [audit |-> AuditRecord(state, action, reason, extra),
     out |-> transition(state,
               updates @@ [audit_trail |->
                   <<trail_entry(state, node, action, extra)>>])]

\* what a node computes: the audit record it emits and the state it returns
NodeEffect(state, node, action, reason, extra, updates) ==
    [audit |-> AuditRecord(state, action, reason, extra),
     out |-> transition(state,
               updates @@ [audit_trail |->
                   Append(state.audit_trail,
                          trail_entry(state, node, action, extra))])]

\* retrieve_context / retrieve_context_compliance
retrieve_context(state) ==
    LET context == "simulated_context:" \o state.tenant_id \o ":"
                     \o EventTypeOf(state.raw_event, "unknown")
    IN NodeEffect(state, "retrieval", "context_retrieved",
                  "vector_retrieval_simulated", <<>>,
                  [retrieved_context |-> Some(context)])

\* validate_policy / validate_policy_compliance
validate_policy(state) ==
    LET metadata == MetadataOf(state.raw_event)
        policy_result ==
            IF metadata.policy_override \/ metadata.category = "sensitive"
            THEN "FAIL" ELSE "PASS"
    IN NodeEffect(state, "policy_validation", "policy_validated",
                  "rule_based_validation", [policy_result |-> policy_result],
                  [policy_result |-> Some(policy_result)])

\* score_risk / score_risk_compliance
score_risk(state) ==
    LET event_type == EventTypeOf(state.raw_event, "standard")
        metadata == MetadataOf(state.raw_event)
        risk_score ==
            IF event_type = "high_risk" THEN 85
            ELSE IF metadata.category = "sensitive" THEN 70
            ELSE IF event_type = "low_risk" THEN 15
            ELSE 30
    IN NodeEffect(state, "risk_scoring", "risk_scored",
                  "deterministic_scoring", [risk_score |-> risk_score],
                  [risk_score |-> Some(risk_score)])

\* apply_guardrails / apply_guardrails_compliance
apply_guardrails(state) ==
    LET blocked == MetadataOf(state.raw_event).blocked_pattern
        over_threshold == ScoreOrZero(state) >= HIGH_RISK_THRESHOLD
        guardrail_result == IF blocked \/ over_threshold THEN "VIOLATION" ELSE "OK"
    IN NodeEffect(state, "guardrails", "guardrails_applied",
                  "threshold_and_pattern_check",
                  [guardrail_result |-> guardrail_result],
                  [guardrail_result |-> Some(guardrail_result)])

\* variant: a risk score equal to the threshold is not high risk
make_decision_above_only(state) ==
    LET policy_fail == state.policy_result = Some("FAIL")
        high_risk == ScoreOrZero(state) > HIGH_RISK_THRESHOLD
        guardrail_violation == state.guardrail_result = Some("VIOLATION")
        final_decision ==
            IF policy_fail \/ high_risk \/ guardrail_violation
            THEN "REQUIRE_APPROVAL" ELSE "APPROVED"
    IN NodeEffect(state, "decision", "decision_made", "deterministic_decision",
                  [final_decision |-> final_decision],
                  [final_decision |-> Some(final_decision)])

\* make_decision
make_decision(state) ==
    LET policy_fail == state.policy_result = Some("FAIL")
        high_risk == ScoreOrZero(state) >= HIGH_RISK_THRESHOLD
        guardrail_violation == state.guardrail_result = Some("VIOLATION")
        final_decision ==
            IF policy_fail \/ high_risk \/ guardrail_violation
            THEN "REQUIRE_APPROVAL" ELSE "APPROVED"
    IN NodeEffect(state, "decision", "decision_made", "deterministic_decision",
                  [final_decision |-> final_decision],
                  [final_decision |-> Some(final_decision)])

\* make_compliance_decision
make_compliance_decision(state) ==
    LET policy_fail == state.policy_result = Some("FAIL")
        high_risk == ScoreOrZero(state) >= HIGH_RISK_THRESHOLD
        guardrail_violation == state.guardrail_result = Some("VIOLATION")
        has_regulatory_flags == Len(state.regulatory_flags) > 0
        escalate == policy_fail \/ high_risk \/ guardrail_violation
                      \/ has_regulatory_flags
        final_decision == IF escalate THEN "REQUIRE_APPROVAL" ELSE "APPROVED"
    IN NodeEffect(state, "decision", "decision_made", "compliance_decision",
                  [final_decision |-> final_decision,
                   approval_required |-> escalate],
                  [final_decision |-> Some(final_decision),
                   approval_required |-> escalate])

\* the function run_all_nodes calls for a node name, by workflow kind
NodeFn(kind, node, state) ==
    CASE node = "retrieval" -> retrieve_context(state)
      [] node = "policy_validation" -> validate_policy(state)
      [] node = "risk_scoring" -> score_risk(state)
      [] node = "guardrails" -> apply_guardrails(state)
      [] node = "decision" ->
            IF kind = "compliance" THEN make_compliance_decision(state)
            ELSE make_decision(state)

\* variant: the trail is not consulted
_node_done_never(state, node) == FALSE

\* _node_done / _node_done_compliance
_node_done(state, node) ==
    \E i \in DOMAIN state.audit_trail : state.audit_trail[i].node = node

\* variant: run_all_nodes takes the last node that is left first
NextNode_last_first(state, i) ==
    LET left == {j \in DOMAIN NODE_ORDER :
                    j > i /\ ~_node_done(state, NODE_ORDER[j])}
    IN IF left = {} THEN 0 ELSE CHOOSE j \in left : \A k \in left : j >= k

\* run_all_nodes: the next node it executes after having passed position i
\* of NODE_ORDER (0: none passed); 0 when none is left
NextNode(state, i) ==
    LET left == {j \in DOMAIN NODE_ORDER :
                    j > i /\ ~_node_done(state, NODE_ORDER[j])}
    IN IF left = {} THEN 0 ELSE CHOOSE j \in left : \A k \in left : j <= k

\* RedisWorkflowStateStore._key / _compliance_key
_key(event_id) == WORKFLOW_PREFIX \o ":" \o event_id
_compliance_key(event_id) == WORKFLOW_PREFIX \o ":compliance:" \o event_id
StoreKey(kind, event_id) ==
    IF kind = "compliance" THEN _compliance_key(event_id) ELSE _key(event_id)

\* state.model_dump_json(): the fields in declaration order, name and value
_risk_state_to_json(state) ==
    [i \in DOMAIN RiskStateFields |->
        <<RiskStateFields[i], state[RiskStateFields[i]]>>]
_compliance_state_to_json(state) ==
    [i \in DOMAIN ComplianceStateFields |->
        <<ComplianceStateFields[i], state[ComplianceStateFields[i]]>>]
StateToJson(kind, state) ==
    IF kind = "compliance" THEN _compliance_state_to_json(state)
    ELSE _risk_state_to_json(state)

\* RiskState.model_validate_json / ComplianceState.model_validate_json: the
\* fields named in the text, each with the value the text gives it
_state_from_json(data) ==
    [f \in {data[i][1] : i \in DOMAIN data} |->
        data[CHOOSE i \in DOMAIN data : data[i][1] = f][2]]

(***************************************************************************)
(* State.                                                                  *)
(***************************************************************************)
VARIABLES
    redis,        \* the key-value store: key -> stored JSON (present keys only)
    broker,       \* messages the broker accepted
    dispatched,   \* workflow_trigger.start calls that succeeded
    pc,           \* per request: where its create_event call stands
    args,         \* per request: event, tenant_id, idempotency_key, correlation_id
    persisted,    \* per request: the PersistedEvent save returned
    result,       \* per request: the response returned or the error raised
    steps,        \* per request: the steps the call performed, with outcome
    probe,        \* per request: what the idempotency probe found
    racing,       \* per request: same-key calls that had missed the probe and not
                  \*   yet reached the end when this call probed
    finished,     \* per request: the calls that had ended when it was submitted
    submitted     \* number of requests submitted so far

ingestOnly == <<broker, dispatched, pc, args, persisted, result, steps, probe,
                racing, finished, submitted>>

\* The workflow runtime.  The snapshot store is RedisWorkflowStateStore over
\* the same key-value store (redis).
VARIABLES
    hasStore,     \* self._store is configured
    registry,     \* what the model and prompt registries hold (None: not wired)
    auditSink,    \* the audit repository: the bag of records saved
    wpc,          \* per run: where the run call stands
    wcall,        \* per run: the workflow kind and the state passed to run
    current,      \* per run: the local variable current
    wpos,         \* per run: position of run_all_nodes in NODE_ORDER
    wresult,      \* per run: the state returned or the error raised
    wlog,         \* per run: what the run found and did (history)
    wstarted,     \* number of run calls made so far
    observed,     \* self._failure_classifier and self._metrics are configured
    failure_count \* per category: the counter failure_count:category=...

workflowOnly == <<hasStore, registry, auditSink, wpc, wcall, current, wpos,
                  wresult, wlog, wstarted, observed, failure_count>>

\* The circuit breaker (app.scalability.circuit_breaker) and the calls made
\* through it.
VARIABLES
    cb,           \* the CircuitBreaker: _state, _failures, _last_failure_time,
                  \*   _threshold, _recovery_timeout
    now,          \* time.monotonic()
    cpc,          \* per call: where the call of CircuitBreaker.call stands
    clog,         \* per call: what the call saw and how it ended (history)
    cstarted      \* number of calls made so far

breakerOnly == <<cb, now, cpc, clog, cstarted>>

\* The bulkhead (app.scalability.bulkhead) and the submissions made to it.
VARIABLES
    bh,           \* the BulkheadExecutor: _max_concurrent, _max_queued, _queue,
                  \*   _active, the semaphore's permits, its worker task
    subs          \* per submission: where submit stands, and its history

bulkheadOnly == <<bh, subs>>

\* The distributed lock (app.scalability.distributed_lock).  Its backend is
\* the key-value store (redis).
VARIABLES
    lockTokens,   \* per DistributedLock instance: self._tokens
    lockInst,     \* per holder (a task that takes and releases locks): the
                  \*   DistributedLock instance it calls
    lockLog       \* the acquire and release calls made so far (history)

lockOnly == <<lockTokens, lockInst, lockLog>>

\* The per-tenant rate limiter (app.scalability.rate_limiter) over the
\* in-memory backend.
VARIABLES
    rl            \* the TenantRateLimiter: _limit, _window, the backend's
                  \*   _windows, the monotonic clock, and the last call made

limiterOnly == <<rl>>

\* The auto-scaling policy (app.scalability.autoscaling_policy).
VARIABLES
    policy,       \* the AutoScalingPolicy: its thresholds and replica limits
    evaluated     \* the evaluate call: the snapshot it is given and the
                  \*   ScalingDecision it returned, None before it returns

scalingOnly == <<policy, evaluated>>

\* The model registry (app.governance.model_registry) over a repository that
\* keeps the records by (model_name, version) and the latest per name.
VARIABLES
    modelRepo,    \* the repository: store and latest
    modelAudit,   \* the audit records the registry's AuditLogger has written
    mcalls        \* per call of the registry: the operation, its arguments,
                  \*   where it stands and how it ended

modelsOnly == <<modelRepo, modelAudit, mcalls>>

\* The prompt registry (app.governance.prompt_registry) over a repository
\* that keeps every saved record.
VARIABLES
    promptStore,  \* the repository: the records saved, in order
    promptAudit,  \* the audit records the registry's AuditLogger has written
    pcalls        \* per call of the registry: the operation, its prompt_id,
                  \*   where it stands, the record it builds and how it ended

promptsOnly == <<promptStore, promptAudit, pcalls>>

\* The approval workflow (app.governance.approval_workflow) over a repository
\* that keeps one request per request_id.
VARIABLES
    approvalStore,  \* the repository: request_id -> ApprovalRequest
    approvalAudit,  \* the audit records the workflow's AuditLogger has written
    acalls          \* per call of the workflow: the operation, its arguments,
                    \*   where it stands and how it ended

approvalsOnly == <<approvalStore, approvalAudit, acalls>>

\* Reads that name a tenant: TenantContext.validate_access and
\* EventService.get_event over the event store in redis.
VARIABLES
    access        \* the latest such read: its arguments and what it gave

tenantOnly == <<access>>

\* The cache keys built for two (tenant, id) pairs.
VARIABLES
    built         \* the two pairs, the key family and the keys once built

keysOnly == <<built>>

\* One event whose status is changed through BaseEvent.transition_to.
VARIABLES
    lifecycle     \* the statuses the event has had, and the latest call

lifecycleOnly == <<lifecycle>>

vars ==
    <<redis, ingestOnly, workflowOnly, breakerOnly, bulkheadOnly,
        lockOnly, limiterOnly, scalingOnly, modelsOnly, promptsOnly,
        approvalsOnly, tenantOnly, keysOnly, lifecycleOnly>>
\* what the steps of one component leave alone
notIngest ==
    <<workflowOnly, breakerOnly, bulkheadOnly, lockOnly,
        limiterOnly, scalingOnly, modelsOnly, promptsOnly,
        approvalsOnly, tenantOnly, keysOnly, lifecycleOnly>>
notWorkflow ==
    <<ingestOnly, breakerOnly, bulkheadOnly, lockOnly, limiterOnly,
        scalingOnly, modelsOnly, promptsOnly, approvalsOnly,
        tenantOnly, keysOnly, lifecycleOnly>>
notBreaker ==
    <<redis, ingestOnly, workflowOnly, bulkheadOnly, lockOnly,
        limiterOnly, scalingOnly, modelsOnly, promptsOnly,
        approvalsOnly, tenantOnly, keysOnly, lifecycleOnly>>
notBulkhead ==
    <<redis, ingestOnly, workflowOnly, breakerOnly, lockOnly,
        limiterOnly, scalingOnly, modelsOnly, promptsOnly,
        approvalsOnly, tenantOnly, keysOnly, lifecycleOnly>>
notLock ==
    <<ingestOnly, workflowOnly, breakerOnly, bulkheadOnly,
        limiterOnly, scalingOnly, modelsOnly, promptsOnly,
        approvalsOnly, tenantOnly, keysOnly, lifecycleOnly>>
notLimiter ==
    <<redis, ingestOnly, workflowOnly, breakerOnly, bulkheadOnly,
        lockOnly, scalingOnly, modelsOnly, promptsOnly,
        approvalsOnly, tenantOnly, keysOnly, lifecycleOnly>>
notScaling ==
    <<redis, ingestOnly, workflowOnly, breakerOnly, bulkheadOnly,
        lockOnly, limiterOnly, modelsOnly, promptsOnly,
        approvalsOnly, tenantOnly, keysOnly, lifecycleOnly>>
notModels ==
    <<redis, ingestOnly, workflowOnly, breakerOnly, bulkheadOnly,
        lockOnly, limiterOnly, scalingOnly, promptsOnly,
        approvalsOnly, tenantOnly, keysOnly, lifecycleOnly>>
notPrompts ==
    <<redis, ingestOnly, workflowOnly, breakerOnly, bulkheadOnly,
        lockOnly, limiterOnly, scalingOnly, modelsOnly,
        approvalsOnly, tenantOnly, keysOnly, lifecycleOnly>>
notApprovals ==
    <<redis, ingestOnly, workflowOnly, breakerOnly, bulkheadOnly,
        lockOnly, limiterOnly, scalingOnly, modelsOnly, promptsOnly,
        tenantOnly, keysOnly, lifecycleOnly>>
notTenant ==
    <<ingestOnly, workflowOnly, breakerOnly, bulkheadOnly,
        lockOnly, limiterOnly, scalingOnly, modelsOnly, promptsOnly,
        approvalsOnly, keysOnly, lifecycleOnly>>
notKeys ==
    <<redis, ingestOnly, workflowOnly, breakerOnly, bulkheadOnly,
        lockOnly, limiterOnly, scalingOnly, modelsOnly, promptsOnly,
        approvalsOnly, tenantOnly, lifecycleOnly>>
notLifecycle ==
    <<redis, ingestOnly, workflowOnly, breakerOnly, bulkheadOnly,
        lockOnly, limiterOnly, scalingOnly, modelsOnly, promptsOnly,
        approvalsOnly, tenantOnly, keysOnly>>

NoArgs == [event |-> [event_id |-> "", tenant_id |-> "", status |-> "CREATED",
                      created_at |-> 0, metadata |-> None, type |-> "RiskEvent"],
           tenant_id |-> "", idempotency_key |-> "", correlation_id |-> ""]
NoPersisted == [event_id |-> "", tenant_id |-> "", correlation_id |-> "",
                status |-> "RECEIVED", created_at |-> 0, metadata |-> None,
                version |-> ""]
NoResponse == [event_id |-> "", tenant_id |-> "", status |-> "RECEIVED",
               created_at |-> 0, metadata |-> None, version |-> ""]
NoResult == [kind |-> "none", error |-> "", response |-> NoResponse]
Returned(resp) == [kind |-> "response", error |-> "", response |-> resp]
Raised(err) == [kind |-> "raised", error |-> err, response |-> NoResponse]

\* RedisClient.get_cache / set_cache on a store
CacheGet(store, key) == IF key \in DOMAIN store THEN <<store[key]>> ELSE None
get_cache(key) == CacheGet(redis, key)
set_cache(key, value) ==
    [k \in DOMAIN redis \cup {key} |-> IF k = key THEN value ELSE redis[k]]

cache_key(r) == _idempotency_key(args[r].tenant_id, args[r].idempotency_key)

\* The workflow runs of one behaviour, and the states passed to run
Run == 1 .. MaxRun
EventIds == {"e1", "e2"}
Kinds == {"risk", "compliance"}
\* the raw_event of each event
RawEventOf(event_id) ==
    IF event_id = "e1" THEN [event_type |-> Some("high_risk"), metadata |-> None]
    ELSE [event_type |-> None,
          metadata |-> Some([category |-> "sensitive", policy_override |-> FALSE,
                             blocked_pattern |-> FALSE])]
NoRawEvent == [event_type |-> None, metadata |-> None]

\* a state as the caller builds it for an event
NewState(kind, event_id, raw_event) ==
    IF kind = "compliance"
    THEN ComplianceState(event_id, "t1", "c-" \o event_id, raw_event,
                         IF raw_event.metadata = None THEN <<>> ELSE <<"GDPR">>)
    ELSE RiskState(event_id, "t1", "c-" \o event_id, raw_event)

\* the state after the first k nodes of NODE_ORDER have run on it: what a
\* caller holds who resumes a workflow
RECURSIVE AfterNodes(_, _, _)
AfterNodes(kind, state, k) ==
    IF k = 0 THEN state
    ELSE NodeFn(kind, NODE_ORDER[k], AfterNodes(kind, state, k - 1)).out

\* the states passed to run: a new one for each event, and for one event
\* the state resumed after two nodes
RunInputs ==
    { [kind |-> kind,
       state |-> AfterNodes(kind, NewState(kind, ek[1], RawEventOf(ek[1])),
                            ek[2])] :
        kind \in Kinds, ek \in {<<"e1", 0>>, <<"e1", 2>>, <<"e2", 0>>} }

\* ModelRecord / PromptRecord as the registries return them
ModelRecord(model_name, version, status) ==
    [model_name |-> model_name, version |-> version, status |-> status,
     approved |-> (status = "APPROVED")]
PromptRecord(prompt_id, version) == [prompt_id |-> prompt_id, version |-> version]

NoRegistry == [models |-> None, prompts |-> None]
\* registries as a deployment wires them: per name the latest record
RegistrySetups ==
    { NoRegistry,
      [models |-> Some([n \in {"risk-model", "compliance-model"} |->
                          IF n = "risk-model"
                          THEN Some(ModelRecord(n, "2", "APPROVED"))
                          ELSE None]),
       prompts |-> Some([p \in {"risk-prompt", "compliance-prompt"} |->
                          IF p = "risk-prompt" THEN None
                          ELSE Some(PromptRecord(p, 2))])] }

\* FailureCategory and FailureClassifier.classify, over the exception classes
\* the runs meet; the adapters' own errors are outside the taxonomy
FailureCategory ==
    {"VALIDATION_ERROR", "POLICY_VIOLATION", "HIGH_RISK", "WORKFLOW_ERROR",
     "INFRA_ERROR", "UNEXPECTED_ERROR"}
classify(exception) ==
    IF exception = "DomainValidationError" THEN "VALIDATION_ERROR"
    ELSE IF exception = "RiskThresholdViolationError" THEN "HIGH_RISK"
    ELSE IF exception = "InvalidWorkflowStateError" THEN "WORKFLOW_ERROR"
    ELSE IF exception = "EncryptionError" THEN "INFRA_ERROR"
    ELSE IF exception = "GovernanceError" THEN "POLICY_VIOLATION"
    ELSE "UNEXPECTED_ERROR"

NoCall == [kind |-> "risk", state |-> RiskState("", "", "", NoRawEvent)]
\* found: the snapshot the store held for the event when run was called;
\* failed: the node that raised and its error
NoLog == [found |-> None, ran |-> <<>>, emitted |-> 0, writes |-> 0,
          failed |-> None]
NoOutcome == [kind |-> "none", error |-> ""]
ReturnedState(state) == [kind |-> "state", error |-> "", state |-> state]
RaisedFrom(err) == [kind |-> "raised", error |-> err]

\* CircuitState, and the CircuitBreaker as __init__ leaves it
CLOSED == "closed"
OPEN == "open"
HALF_OPEN == "half_open"
CircuitBreaker(failure_threshold, recovery_timeout_seconds) ==
    [threshold |-> failure_threshold,
     recovery_timeout |-> recovery_timeout_seconds,
     state |-> CLOSED, failures |-> 0, last_failure_time |-> None]

Call == 1 .. MaxCall
NoCallLog == [seen |-> "", outcome |-> "none"]
\* no call has been made through a breaker of the given configuration
BreakerAt(failure_threshold, recovery_timeout_seconds) ==
    /\ cb = CircuitBreaker(failure_threshold, recovery_timeout_seconds)
    /\ now = 0
    /\ cpc = [c \in Call |-> "idle"]
    /\ clog = [c \in Call |-> NoCallLog]
    /\ cstarted = 0

\* the breaker of the default arguments, never called
BreakerIdle == BreakerAt(DEFAULT_FAILURE_THRESHOLD, DEFAULT_RECOVERY_TIMEOUT)

\* BulkheadExecutor.__init__; asyncio.Semaphore(max_concurrent) holds
\* max_concurrent permits, no worker task exists yet
BulkheadExecutor(max_concurrent, max_queued) ==
    [max_concurrent |-> max_concurrent, max_queued |-> max_queued,
     queue |-> <<>>, active |-> 0, permits |-> max_concurrent,
     worker |-> "none", task |-> 0]

Sub == 1 .. MaxSub
\* free: a slot was free when the submission was made; waited: a task ended
\* between the submission and the start of its task
NoSub == [pc |-> "idle", outcome |-> "none", free |-> FALSE, waited |-> FALSE]
\* no submission has been made to a bulkhead of the given configuration
BulkheadAt(max_concurrent, max_queued) ==
    /\ bh = BulkheadExecutor(max_concurrent, max_queued)
    /\ subs = [s \in Sub |-> NoSub]

BulkheadIdle == BulkheadAt(DEFAULT_MAX_CONCURRENT, DEFAULT_MAX_QUEUED)

LOCK_PREFIX == "lock:"
Holder == 1 .. MaxHolder
LockInstances == Holder
\* the holders are tasks of one process sharing its DistributedLock, or each
\* holder is a process with a DistributedLock of its own
LockSetups == {[h \in Holder |-> 1], [h \in Holder |-> h]}
LockKeys == {"workflow:e1", "workflow:e2"}
\* the DistributedLock instances are built and never called; the holders use
\* the instances given by inst
LocksAt(inst) ==
    /\ lockTokens = [i \in LockInstances |-> <<>>]
    /\ lockInst = inst
    /\ lockLog = <<>>

LockIdle == LocksAt([h \in Holder |-> 1])

\* TenantRateLimiter.__init__ over a new InMemoryRateLimitBackend; calls: the
\* allow_request calls made, last: the latest of them
NoAllow == [tenant_id |-> "", count |-> 0, allowed |-> FALSE]
TenantRateLimiter(requests_per_window, window_seconds) ==
    [limit |-> requests_per_window, window |-> window_seconds,
     windows |-> <<>>, now |-> 0, calls |-> 0, last |-> NoAllow]

LimiterIdle == rl = TenantRateLimiter(DEFAULT_REQUESTS_PER_WINDOW, DEFAULT_WINDOW_SECONDS)

\* AutoScalingPolicy.__init__; the thresholds are whole numbers of the
\* signal's unit (the failure rate in hundredths)
AutoScalingPolicy(cpu_scale_up_threshold, cpu_scale_down_threshold, latency_scale_up_ms, failure_rate_scale_up, queue_depth_scale_up, min_replicas, max_replicas) ==
    [cpu_up |-> cpu_scale_up_threshold, cpu_down |-> cpu_scale_down_threshold,
     latency_up |-> latency_scale_up_ms, failure_up |-> failure_rate_scale_up,
     queue_up |-> queue_depth_scale_up,
     min_replicas |-> min_replicas, max_replicas |-> max_replicas]

\* MetricsSnapshot: a signal is None (no signal) or Some(value)
MetricsSnapshot(cpu_usage_pct, request_latency_p99_ms, failure_rate, queue_depth, current_replicas) ==
    [cpu_usage_pct |-> cpu_usage_pct,
     request_latency_p99_ms |-> request_latency_p99_ms,
     failure_rate |-> failure_rate, queue_depth |-> queue_depth,
     current_replicas |-> current_replicas]

\* the call policy.evaluate(m), not yet run
ToEvaluate(m) == [metrics |-> m, decision |-> None]

\* a registry call not yet made
MaxModelCalls == 3
ModelCall == 1..MaxModelCalls
NoModelCall ==
    [op |-> "", version |-> None, pc |-> "idle", existing |-> None,
     record |-> None, outcome |-> "none", saved |-> FALSE]

\* ModelRegistry.__init__ over an empty repository, never called
ModelsIdle ==
    /\ modelRepo = [store |-> <<>>, latest |-> <<>>]
    /\ modelAudit = <<>>
    /\ mcalls = [c \in ModelCall |-> NoModelCall]

\* a prompt registry call not yet made
MaxPromptCalls == 3
PromptCall == 1..MaxPromptCalls
NoPromptCall ==
    [op |-> "", prompt_id |-> "", pc |-> "idle", record |-> None,
     outcome |-> "none"]

\* PromptRegistry.__init__ over an empty repository, never called
PromptsIdle ==
    /\ promptStore = <<>>
    /\ promptAudit = <<>>
    /\ pcalls = [c \in PromptCall |-> NoPromptCall]

\* an approval workflow call not yet made
MaxApprovalCalls == 3
ApprovalCall == 1..MaxApprovalCalls
NoApprovalCall ==
    [op |-> "", request_id |-> "", role |-> "", pc |-> "idle", request |-> None,
     record |-> None, outcome |-> "none", saved |-> FALSE]

\* ApprovalWorkflow.__init__ over an empty repository, never called
ApprovalsIdle ==
    /\ approvalStore = <<>>
    /\ approvalAudit = <<>>
    /\ acalls = [c \in ApprovalCall |-> NoApprovalCall]

\* no read has been made
NoAccess ==
    [op |-> "", resource_tenant |-> "", request_tenant |-> "", event_id |-> "",
     outcome |-> "none", data |-> None]
TenantIdle == access = NoAccess

\* two pairs whose keys are not built yet
ToBuild(family, first, second) ==
    [family |-> family, first |-> first, second |-> second, keys |-> None]
KeysIdle == built = ToBuild("", <<"", "">>, <<"", "">>)

\* an event constructed with a status, before any transition_to
NewEvent(status) == [path |-> <<status>>, asked |-> "", outcome |-> "none"]
LifecycleIdle == lifecycle = NewEvent("CREATED")

ScalingIdle ==
    /\ policy = AutoScalingPolicy(70, 30, 500, 5, 50, 1, 20)
    /\ evaluated = ToEvaluate(MetricsSnapshot(None, None, None, None, 1))

\* no run call has been made
RunsIdle ==
    /\ auditSink = EmptyBag
    /\ wpc = [w \in Run |-> "idle"]
    /\ wcall = [w \in Run |-> NoCall]
    /\ current = [w \in Run |-> NoCall.state]
    /\ wpos = [w \in Run |-> 0]
    /\ wresult = [w \in Run |-> NoOutcome]
    /\ wlog = [w \in Run |-> NoLog]
    /\ wstarted = 0
    /\ failure_count = [c \in FailureCategory |-> 0]

\* the workflows are built without store and registries and never called
WorkflowIdle ==
    /\ hasStore = FALSE
    /\ registry = NoRegistry
    /\ observed = FALSE
    /\ RunsIdle

\* every component but x is as its constructor with default arguments leaves
\* it, and never called
IdleBut(x) ==
    /\ x = "workflow" \/ WorkflowIdle
    /\ x = "breaker" \/ BreakerIdle
    /\ x = "bulkhead" \/ BulkheadIdle
    /\ x = "lock" \/ LockIdle
    /\ x = "limiter" \/ LimiterIdle
    /\ x = "scaling" \/ ScalingIdle
    /\ x = "models" \/ ModelsIdle
    /\ x = "prompts" \/ PromptsIdle
    /\ x = "approvals" \/ ApprovalsIdle
    /\ x = "tenant" \/ TenantIdle
    /\ x = "keys" \/ KeysIdle
    /\ x = "lifecycle" \/ LifecycleIdle

IngestInit ==
    /\ redis = <<>>
    /\ broker = {}
    /\ dispatched = {}
    /\ pc = [r \in Req |-> "idle"]
    /\ args = [r \in Req |-> NoArgs]
    /\ persisted = [r \in Req |-> NoPersisted]
    /\ result = [r \in Req |-> NoResult]
    /\ steps = [r \in Req |-> <<>>]
    /\ probe = [r \in Req |-> "none"]
    /\ racing = [r \in Req |-> {}]
    /\ finished = [r \in Req |-> {}]
    /\ submitted = 0

Init == IngestInit /\ IdleBut("ingest")

(***************************************************************************)
(* POST /events and the first step of EventService.create_event.           *)
(***************************************************************************)
\* _request_to_risk_event / _request_to_compliance_event
_request_to_event(n, tenant_id, input) ==
    [event_id |-> Uuid4(n), tenant_id |-> tenant_id, status |-> input.status,
     created_at |-> UtcNow(n), metadata |-> input.metadata,
     type |-> input.type]

\* get_cache raised: the error leaves create_event
ProbeFailure(r) ==
    /\ result' = [result EXCEPT ![r] = Raised("RedisError")]
    /\ pc' = [pc EXCEPT ![r] = "done"]
    /\ UNCHANGED <<probe, racing>>

\* if cached: return EventResponse.model_validate_json(cached)
IdempotentReplay(r, cached) ==
    /\ result' = [result EXCEPT ![r] = Returned(model_validate_json(cached[1]))]
    /\ probe' = [probe EXCEPT ![r] = "hit"]
    /\ pc' = [pc EXCEPT ![r] = "done"]
    /\ UNCHANGED racing

\* no record: go on to step 2
ProbeMiss(r, key) ==
    /\ probe' = [probe EXCEPT ![r] = "miss"]
    /\ racing' = [racing EXCEPT ![r] =
          {q \in Req \ {r} :
              /\ pc[q] \in {"save", "publish", "workflow", "cache"}
              /\ cache_key(q) = key}]
    /\ pc' = [pc EXCEPT ![r] = "save"]
    /\ UNCHANGED result

\* The router builds the event and calls create_event, which runs to its
\* first await and resumes from it.
\* Step 1: cached = await get_cache(cache_key); if cached: return parsed
Submit(r) ==
    /\ r = submitted + 1
    /\ pc[r] = "idle"
    /\ submitted' = r
    /\ finished' = [finished EXCEPT ![r] = {q \in Req : pc[q] = "done"}]
    /\ \E t \in Tenants, k \in IdemKeys, input \in EventInputs, ok \in BOOLEAN :
         LET key == _idempotency_key(t, k)
             cached == get_cache(key)
         IN
         /\ args' = [args EXCEPT ![r] =
                       [event |-> _request_to_event(r, t, input),
                        tenant_id |-> t, idempotency_key |-> k,
                        correlation_id |-> CorrelationId(r)]]
         /\ IF ~ok THEN ProbeFailure(r)
            ELSE IF cached # None THEN IdempotentReplay(r, cached)
            ELSE ProbeMiss(r, key)
    /\ UNCHANGED <<redis, broker, dispatched, persisted, steps>>
    /\ UNCHANGED notIngest

(***************************************************************************)
(* EventService.create_event continued, one action per await.              *)
(***************************************************************************)
\* RedisEventRepository.save stored the event
SaveOk(r) ==
    LET p == PersistedEvent(args[r].event, args[r].correlation_id) IN
    /\ redis' = set_cache(_event_key(args[r].event.tenant_id,
                                     args[r].event.event_id),
                          EventPayloadJson(p))
    /\ persisted' = [persisted EXCEPT ![r] = p]
    /\ steps' = [steps EXCEPT ![r] = Append(@, <<"persist", TRUE>>)]
    /\ pc' = [pc EXCEPT ![r] = "publish"]
    /\ UNCHANGED result

\* variant: a failed save is logged and the call goes on
SaveFailure_swallowed(r) ==
    /\ steps' = [steps EXCEPT ![r] = Append(@, <<"persist", FALSE>>)]
    /\ pc' = [pc EXCEPT ![r] = "publish"]
    /\ UNCHANGED <<redis, persisted, result>>

\* repository.save raised: not caught by create_event
SaveFailure(r) ==
    /\ steps' = [steps EXCEPT ![r] = Append(@, <<"persist", FALSE>>)]
    /\ result' = [result EXCEPT ![r] = Raised("RepositoryError")]
    /\ pc' = [pc EXCEPT ![r] = "done"]
    /\ UNCHANGED <<redis, persisted>>

\* Step 2: persisted = await repository.save(event, correlation_id)
Save(r) ==
    /\ pc[r] = "save"
    /\ \E ok \in BOOLEAN : IF ok THEN SaveOk(r) ELSE SaveFailure(r)
    /\ UNCHANGED <<broker, dispatched, args, probe, racing, finished, submitted>>
    /\ UNCHANGED notIngest

\* variant: the publish is not awaited and the message never reaches the broker
PublishOk_dropped(r) ==
    /\ steps' = [steps EXCEPT ![r] = Append(@, <<"publish", TRUE>>)]
    /\ pc' = [pc EXCEPT ![r] = "workflow"]
    /\ UNCHANGED <<broker, result>>

\* the broker accepted the message
PublishOk(r) ==
    /\ broker' = broker \cup {BrokerMessage(args[r].event, persisted[r],
                                            args[r].idempotency_key)}
    /\ steps' = [steps EXCEPT ![r] = Append(@, <<"publish", TRUE>>)]
    /\ pc' = [pc EXCEPT ![r] = "workflow"]
    /\ UNCHANGED result

\* variant: a failed publish is logged and the call goes on
PublishFailure_swallowed(r) ==
    /\ steps' = [steps EXCEPT ![r] = Append(@, <<"publish", FALSE>>)]
    /\ pc' = [pc EXCEPT ![r] = "workflow"]
    /\ UNCHANGED <<broker, result>>

\* except Exception: raise MessagingFailureError
PublishFailure(r) ==
    /\ steps' = [steps EXCEPT ![r] = Append(@, <<"publish", FALSE>>)]
    /\ result' = [result EXCEPT ![r] = Raised("MessagingFailureError")]
    /\ pc' = [pc EXCEPT ![r] = "done"]
    /\ UNCHANGED broker

\* Step 3: await publisher.publish(exchange, routing key, message, key)
Publish(r) ==
    /\ pc[r] = "publish"
    /\ \E ok \in BOOLEAN : IF ok THEN PublishOk(r) ELSE PublishFailure(r)
    /\ UNCHANGED <<redis, dispatched, args, persisted, probe, racing, finished,
                   submitted>>
    /\ UNCHANGED notIngest

\* workflow_trigger.start returned; then Step 5, the event_created audit line
DispatchOk(r) ==
    /\ dispatched' = dispatched \cup {[event_id |-> persisted[r].event_id,
                                       tenant_id |-> persisted[r].tenant_id]}
    /\ steps' = [steps EXCEPT ![r] =
                    Append(Append(@, <<"workflow", TRUE>>), <<"audit", TRUE>>)]
    /\ pc' = [pc EXCEPT ![r] = "cache"]
    /\ UNCHANGED result

\* variant: the workflow failure is re-raised
DispatchFailure_reraises(r) ==
    /\ steps' = [steps EXCEPT ![r] = Append(@, <<"workflow", FALSE>>)]
    /\ result' = [result EXCEPT ![r] = Raised("WorkflowError")]
    /\ pc' = [pc EXCEPT ![r] = "done"]
    /\ UNCHANGED dispatched

\* except Exception: logged, not re-raised; then Step 5 as above
DispatchFailure(r) ==
    /\ steps' = [steps EXCEPT ![r] =
                    Append(Append(@, <<"workflow", FALSE>>), <<"audit", TRUE>>)]
    /\ pc' = [pc EXCEPT ![r] = "cache"]
    /\ UNCHANGED <<dispatched, result>>

\* Step 4: await workflow_trigger.start(event_id, tenant_id)
Dispatch(r) ==
    /\ pc[r] = "workflow"
    /\ \E ok \in BOOLEAN : IF ok THEN DispatchOk(r) ELSE DispatchFailure(r)
    /\ UNCHANGED <<redis, broker, args, persisted, probe, racing, finished,
                   submitted>>
    /\ UNCHANGED notIngest

\* the record is stored; Step 7: return response
CacheWriteOk(r) ==
    LET response == _persisted_to_response(persisted[r]) IN
    /\ redis' = set_cache(cache_key(r), model_dump_json(response))
    /\ steps' = [steps EXCEPT ![r] = Append(@, <<"cache", TRUE>>)]
    /\ result' = [result EXCEPT ![r] = Returned(response)]
    /\ pc' = [pc EXCEPT ![r] = "done"]

\* variant: the record is stored before the error leaves the call
CacheWriteFailure_after_write(r) ==
    /\ redis' = set_cache(cache_key(r),
                          model_dump_json(_persisted_to_response(persisted[r])))
    /\ steps' = [steps EXCEPT ![r] = Append(@, <<"cache", FALSE>>)]
    /\ result' = [result EXCEPT ![r] = Raised("RedisError")]
    /\ pc' = [pc EXCEPT ![r] = "done"]

\* set_cache raised: not caught by create_event
CacheWriteFailure(r) ==
    /\ steps' = [steps EXCEPT ![r] = Append(@, <<"cache", FALSE>>)]
    /\ result' = [result EXCEPT ![r] = Raised("RedisError")]
    /\ pc' = [pc EXCEPT ![r] = "done"]
    /\ UNCHANGED redis

\* Step 6: await set_cache(cache_key, response.model_dump_json(), ttl)
CacheWrite(r) ==
    /\ pc[r] = "cache"
    /\ \E ok \in BOOLEAN : IF ok THEN CacheWriteOk(r) ELSE CacheWriteFailure(r)
    /\ UNCHANGED <<broker, dispatched, args, persisted, probe, racing, finished,
                   submitted>>
    /\ UNCHANGED notIngest

\* The idempotency record's TTL (IDEMPOTENCY_TTL seconds) runs out
Expire(t, k) ==
    /\ _idempotency_key(t, k) \in DOMAIN redis
    /\ redis' = [x \in DOMAIN redis \ {_idempotency_key(t, k)} |-> redis[x]]
    /\ UNCHANGED notWorkflow
    /\ UNCHANGED notIngest

Next ==
    \/ \E r \in Req : Submit(r)
    \/ \E r \in Req : Save(r)
    \/ \E r \in Req : Publish(r)
    \/ \E r \in Req : Dispatch(r)
    \/ \E r \in Req : CacheWrite(r)
    \/ \E t \in Tenants, k \in IdemKeys : Expire(t, k)

Spec == Init /\ [][Next]_vars

(***************************************************************************)
(* Properties of the ingestion transaction.                                *)
(***************************************************************************)
Started(r) == pc[r] # "idle"
Done(r) == pc[r] = "done"
ReturnedResponse(r) == Done(r) /\ result[r].kind = "response"
RaisedError(r) == Done(r) /\ result[r].kind = "raised"
StepOk(r, name) == \E i \in DOMAIN steps[r] : steps[r][i] = <<name, TRUE>>
StepFailed(r, name) == \E i \in DOMAIN steps[r] : steps[r][i] = <<name, FALSE>>
StepNames(r) == [i \in DOMAIN steps[r] |-> steps[r][i][1]]
SameKey(q, r) ==
    /\ Started(q) /\ Started(r)
    /\ args[q].tenant_id = args[r].tenant_id
    /\ args[q].idempotency_key = args[r].idempotency_key
StepOrder == <<"persist", "publish", "workflow", "audit", "cache">>
\* the event-store entry of (tenant, event id) in a store, as RedisEventRepository.get reads it
StoredEvent(store, tenant_id, event_id) ==
    LET raw == CacheGet(store, _event_key(tenant_id, event_id)) IN
    IF raw = None THEN None ELSE <<EventFromJson(raw[1])>>
PublishedFor(tenant_id, event_id) ==
    {m \in broker : m.tenant_id = tenant_id /\ m.event_id = event_id}

\* C1 as stated: with calls repeated one after another on the same (tenant,
\* key), where the first call wrote the event, every call returns what the
\* first call returned and only the first call writes to the event store or
\* publishes.
C1_RepeatsEqualFirst ==
    \A r \in Req : \A q \in finished[r] :
        ( /\ SameKey(q, r) /\ ~(\E x \in Req : x < q /\ SameKey(x, q))
          /\ StepOk(q, "persist") )
        => /\ (ReturnedResponse(q) /\ Done(r)) => result[r] = result[q]
           /\ ~StepOk(r, "persist") /\ ~StepOk(r, "publish")

\* C1 amended: a call that finds the idempotency record returns exactly the
\* response of the call that wrote the record and performs no save, no
\* publish, no workflow dispatch and no cache write; only a call that missed
\* the record (the first call, a retry after a failed attempt, or a call after
\* the record expired) performs any of these steps.
C1_ReplayReturnsStored ==
    \A r \in Req :
        /\ probe[r] = "hit" =>
              /\ steps[r] = <<>>
              /\ ReturnedResponse(r)
              /\ \E q \in Req \ {r} :
                    /\ SameKey(q, r)
                    /\ StepOk(q, "cache")
                    /\ result[q] = result[r]
        /\ steps[r] # <<>> => probe[r] = "miss"

C1_Witness ==
    \E r \in Req : probe[r] = "hit" /\ ReturnedResponse(r)

\* C2: when two calls with the same tenant and idempotency key interleave
\* (the second probes before the first has written the record), both return
\* the same response and at most one event is persisted and at most one
\* message is published for the key.
C2_InterleavedCallsAgree ==
    \A r \in Req : \A q \in racing[r] :
        (ReturnedResponse(q) /\ ReturnedResponse(r))
        => /\ result[q] = result[r]
           /\ Cardinality({x \in {q, r} : StepOk(x, "persist")}) <= 1
           /\ Cardinality({x \in {q, r} : StepOk(x, "publish")}) <= 1

C4_PublishFailure ==
    \A r \in Req :
        StepFailed(r, "publish") =>
            /\ RaisedError(r) /\ result[r].error = "MessagingFailureError"
            /\ steps[r] = << <<"persist", TRUE>>, <<"publish", FALSE>> >>
            /\ StoredEvent(redis, args[r].event.tenant_id, args[r].event.event_id)
                 = Some(PersistedEvent(args[r].event, args[r].correlation_id))
            /\ PublishedFor(args[r].tenant_id, args[r].event.event_id) = {}
            /\ ~(\E d \in dispatched : d.event_id = args[r].event.event_id)
            /\ \A k \in DOMAIN redis :
                  redis[k] # model_dump_json(_persisted_to_response(persisted[r]))

C4_Witness ==
    \E r \in Req :
        /\ StepFailed(r, "publish") /\ RaisedError(r)
        /\ StoredEvent(redis, args[r].event.tenant_id, args[r].event.event_id) # None

\* C5: whenever create_event returns a response, the event named in the
\* response was persisted in the event store and a message for it was
\* published to the broker.
C5_NoPartialSuccess ==
    \A r \in Req :
        ReturnedResponse(r) =>
            LET resp == result[r].response IN
            /\ StoredEvent(redis, resp.tenant_id, resp.event_id) # None
            /\ PublishedFor(resp.tenant_id, resp.event_id) # {}

C5_Witness ==
    \E r \in Req :
        /\ ReturnedResponse(r)
        /\ PublishedFor(result[r].response.tenant_id,
                        result[r].response.event_id) # {}

\* C6 as stated: whenever create_event raises, nothing was published and no
\* idempotency record exists for (tenant, key).
C6_RaiseMeansNothingPublished ==
    \A r \in Req :
        RaisedError(r) =>
            /\ ~StepOk(r, "publish")
            /\ get_cache(cache_key(r)) = None

\* C6 amended: whenever create_event raises, the call has persisted the event
\* at most once, has published only if the raise comes from the idempotency
\* cache write, and has written no idempotency record; a later retry with the
\* same key finds no record unless another call wrote one, and a retry that
\* finds none re-executes the transaction from the persist step and, when its
\* cache write succeeds, has cached and returned its own response.
C6_RaiseLeavesNoRecord ==
    \A r \in Req :
        /\ RaisedError(r) =>
              /\ ~StepOk(r, "cache")
              /\ StepOk(r, "publish") => steps[r][Len(steps[r])] = <<"cache", FALSE>>
              /\ Cardinality({i \in DOMAIN steps[r] : steps[r][i][1] = "persist"}) <= 1
              /\ PublishedFor(args[r].tenant_id, args[r].event.event_id) # {}
                    => StepFailed(r, "cache")
              /\ get_cache(cache_key(r)) #
                    Some(model_dump_json(_persisted_to_response(
                        PersistedEvent(args[r].event, args[r].correlation_id))))
        /\ (\E q \in finished[r] : SameKey(q, r) /\ RaisedError(q)) =>
              /\ (probe[r] = "hit"
                    => \E x \in Req \ {r} : SameKey(x, r) /\ StepOk(x, "cache"))
              /\ (probe[r] = "miss" /\ steps[r] # <<>>)
                    => steps[r][1][1] = "persist"
              /\ (probe[r] = "miss" /\ StepOk(r, "cache"))
                    => result[r] = Returned(_persisted_to_response(
                           PersistedEvent(args[r].event, args[r].correlation_id)))

C6_Witness ==
    \E q, r \in Req :
        /\ q \in finished[r] /\ SameKey(q, r)
        /\ RaisedError(q) /\ StepFailed(q, "cache")
        /\ probe[r] = "miss" /\ StepOk(r, "cache") /\ ReturnedResponse(r)

\* C7: within one create_event execution the steps occur in the order
\* persist, publish, workflow dispatch, audit, idempotency cache write; each
\* step other than the workflow dispatch starts only after the previous one
\* succeeded, so a failed save prevents publish, dispatch and cache write.
C7_StepOrder ==
    /\ \A r \in Req :
          /\ Len(steps[r]) <= Len(StepOrder)
          /\ StepNames(r) = SubSeq(StepOrder, 1, Len(steps[r]))
          /\ \A i \in DOMAIN steps[r] :
                i < Len(steps[r]) => (steps[r][i][2] \/ steps[r][i][1] = "workflow")
          /\ StepFailed(r, "persist") =>
                /\ PublishedFor(args[r].tenant_id, args[r].event.event_id) = {}
                /\ ~(\E d \in dispatched : d.event_id = args[r].event.event_id)
    /\ \A m \in broker : StoredEvent(redis, m.tenant_id, m.event_id) # None
    /\ \A d \in dispatched : PublishedFor(d.tenant_id, d.event_id) # {}
    /\ \A r \in Req :
          LET rec == get_cache(cache_key(r)) IN
          (Started(r) /\ rec # None) =>
              PublishedFor(model_validate_json(rec[1]).tenant_id,
                           model_validate_json(rec[1]).event_id) # {}

C7_Witness ==
    \E q, r \in Req :
        /\ steps[q] = << <<"persist", FALSE>> >> /\ RaisedError(q)
        /\ Len(steps[r]) = Len(StepOrder) /\ ReturnedResponse(r)

\* C8: a failure of the workflow trigger is swallowed: the call goes on to
\* the audit line and the cache write exactly as when the trigger succeeds,
\* the event stays persisted and published, and when the cache write succeeds
\* the call returns the response with status RECEIVED.
C8_WorkflowFailureSwallowed ==
    \A r \in Req :
        StepFailed(r, "workflow") =>
            /\ Len(steps[r]) >= 4
            /\ SubSeq(steps[r], 1, 4) =
                 << <<"persist", TRUE>>, <<"publish", TRUE>>,
                    <<"workflow", FALSE>>, <<"audit", TRUE>> >>
            /\ StoredEvent(redis, args[r].event.tenant_id, args[r].event.event_id) # None
            /\ PublishedFor(args[r].tenant_id, args[r].event.event_id) # {}
            /\ Done(r) =>
                 \/ /\ StepOk(r, "cache")
                    /\ result[r] = Returned(_persisted_to_response(persisted[r]))
                    /\ result[r].response.status = "RECEIVED"
                 \/ /\ StepFailed(r, "cache")
                    /\ result[r] = Raised("RedisError")
            /\ (pc[r] = "cache" \/ Done(r))

C8_Witness ==
    \E r \in Req :
        /\ StepFailed(r, "workflow") /\ ReturnedResponse(r)
        /\ get_cache(cache_key(r)) = Some(model_dump_json(result[r].response))

\* C9: when a create request fails with a messaging failure and the client
\* retries the same request with the same idempotency key, the retry persists
\* and publishes under the event_id of the failed attempt, so after the retry
\* succeeded the event store holds exactly one event for the submission.
C9_RetryReusesEventId ==
    \A r \in Req : \A q \in finished[r] :
        ( /\ SameKey(q, r)
          /\ args[q].event.type = args[r].event.type
          /\ args[q].event.metadata = args[r].event.metadata
          /\ RaisedError(q) /\ result[q].error = "MessagingFailureError"
          /\ ReturnedResponse(r) /\ probe[r] = "miss" )
        => /\ args[r].event.event_id = args[q].event.event_id
           /\ Cardinality({x \in {q, r} :
                  StoredEvent(redis, args[x].event.tenant_id,
                              args[x].event.event_id) # None}) = 1

(***************************************************************************)
(* RiskWorkflow.run / ComplianceWorkflow.run.  The two differ in the state *)
(* class, the store key, the registry names and the decision node.  The    *)
(* observability hooks are not wired, but for the failure classifier and   *)
(* the failure_count counter of the metrics collector.                     *)
(***************************************************************************)
\* _resolve_versions; a get_model that raises leaves the default, as a
\* missing record does
_resolve_versions(kind, state) ==
    LET model_name == IF kind = "compliance" THEN "compliance-model"
                      ELSE "risk-model"
        prompt_id == IF kind = "compliance" THEN "compliance-prompt"
                     ELSE "risk-prompt"
        record == IF registry.models = None THEN None
                  ELSE registry.models[1][model_name]
        prompt_record == IF registry.prompts = None THEN None
                         ELSE registry.prompts[1][prompt_id]
        model_version == IF record # None
                         THEN record[1].model_name \o "@" \o record[1].version
                         ELSE DEFAULT_MODEL_VERSION
        prompt_version == IF prompt_record # None THEN prompt_record[1].version
                          ELSE DEFAULT_PROMPT_VERSION
    IN IF state.model_version # model_version
          \/ state.prompt_version # prompt_version
       THEN transition(state, [model_version |-> model_version,
                               prompt_version |-> prompt_version])
       ELSE state

\* an error leaves the try block of run: the except clause counts it under
\* its category when classifier and metrics are wired, and raises it again
RunRaises(w, err) ==
    /\ failure_count' = IF observed
                        THEN [failure_count EXCEPT ![classify(err)] = @ + 1]
                        ELSE failure_count
    /\ wresult' = [wresult EXCEPT ![w] = RaisedFrom(err)]
    /\ wpc' = [wpc EXCEPT ![w] = "done"]

\* run_all_nodes goes on with state cur after position i of NODE_ORDER: up to
\* the next node's await, or past the last node to the snapshot write or,
\* without a store, to the return
Advance(w, cur, i) ==
    LET n == NextNode(cur, i) IN
    /\ current' = [current EXCEPT ![w] = cur]
    /\ wpos' = [wpos EXCEPT ![w] = n]
    /\ UNCHANGED failure_count
    /\ IF n # 0 THEN wpc' = [wpc EXCEPT ![w] = "nodes"] /\ UNCHANGED wresult
       ELSE IF hasStore
       THEN wpc' = [wpc EXCEPT ![w] = "snapshot"] /\ UNCHANGED wresult
       ELSE /\ wpc' = [wpc EXCEPT ![w] = "done"]
            /\ wresult' = [wresult EXCEPT ![w] = ReturnedState(cur)]

\* if cached is not None: return cached
\* variant: the cached state is not returned but run through run_all_nodes
IdempotentSkip_runs_on(w, call, cached) ==
    Advance(w, _state_from_json(cached[1]), 0)

IdempotentSkip(w, call, cached) ==
    /\ wresult' = [wresult EXCEPT ![w] = ReturnedState(_state_from_json(cached[1]))]
    /\ wpc' = [wpc EXCEPT ![w] = "done"]
    /\ UNCHANGED <<current, wpos, failure_count>>

\* no snapshot (or no store): on to _resolve_versions, which awaits the
\* registries when one is wired
NoSnapshot(w, call) ==
    /\ IF registry.models # None \/ registry.prompts # None
       THEN /\ wpc' = [wpc EXCEPT ![w] = "resolve"]
            /\ UNCHANGED <<current, wpos, wresult, failure_count>>
       ELSE Advance(w, _resolve_versions(call.kind, call.state), 0)

\* run(state) is called and goes to its first await and over it:
\* cached = await self._store.get_risk_state(state.event_id)
RunCallWith(w, inputs) ==
    /\ w = wstarted + 1
    /\ wpc[w] = "idle"
    /\ wstarted' = w
    /\ \E call \in inputs, ok \in (IF hasStore THEN BOOLEAN ELSE {TRUE}) :
         \* the runs of one behaviour are calls of one workflow object
         /\ \A q \in 1 .. wstarted : wcall[q].kind = call.kind
         /\ wcall' = [wcall EXCEPT ![w] = call]
         /\ LET held ==
                  IF hasStore
                  THEN get_cache(StoreKey(call.kind, call.state.event_id))
                  ELSE None
            IN /\ wlog' = [wlog EXCEPT ![w].found = held]
               /\ IF ~ok
                  THEN RunRaises(w, "RedisError") /\ UNCHANGED <<current, wpos>>
                  ELSE IF held # None THEN IdempotentSkip(w, call, held)
                  ELSE NoSnapshot(w, call)
    /\ UNCHANGED <<redis, hasStore, registry, auditSink, observed>>
    /\ UNCHANGED notWorkflow

RunCall(w) == RunCallWith(w, RunInputs)

\* current = await self._resolve_versions(state); get_prompt may raise
ResolveVersions(w) ==
    /\ wpc[w] = "resolve"
    /\ \E ok \in (IF registry.prompts # None THEN BOOLEAN ELSE {TRUE}) :
         IF ok
         THEN Advance(w, _resolve_versions(wcall[w].kind, wcall[w].state), 0)
         ELSE RunRaises(w, "RegistryError") /\ UNCHANGED <<current, wpos>>
    /\ UNCHANGED <<redis, hasStore, registry, auditSink, wcall, wlog, wstarted,
                   observed>>
    /\ UNCHANGED notWorkflow

\* the node's log_action saved its record; the node returns its new state
NodeOk(w, effect) ==
    /\ auditSink' = auditSink (+) SetToBag({effect.audit})
    /\ wlog' = [wlog EXCEPT ![w].ran = Append(@, NODE_ORDER[wpos[w]]),
                            ![w].emitted = @ + 1]
    /\ Advance(w, effect.out, wpos[w])

\* variant: the node's error is swallowed and run_all_nodes goes on with the
\* state the node was given
NodeFailure_goes_on(w, err) ==
    /\ wlog' = [wlog EXCEPT ![w].failed =
                   Some([node |-> NODE_ORDER[wpos[w]], error |-> err])]
    /\ Advance(w, current[w], wpos[w])
    /\ UNCHANGED auditSink

\* the node's log_action raised err (what the audit repository's save
\* raised): the error leaves the node, run_node and run_all_nodes
NodeFailure(w, err) ==
    /\ wlog' = [wlog EXCEPT ![w].failed =
                   Some([node |-> NODE_ORDER[wpos[w]], error |-> err])]
    /\ RunRaises(w, err)
    /\ UNCHANGED <<auditSink, current, wpos>>

\* current = await run_node(name, ...): one node of run_all_nodes, whose
\* audit write succeeds or raises one of errors
RunNodeWith(w, errors) ==
    /\ wpc[w] = "nodes"
    /\ \/ NodeOk(w, NodeFn(wcall[w].kind, NODE_ORDER[wpos[w]], current[w]))
       \/ \E err \in errors : NodeFailure(w, err)
    /\ UNCHANGED <<redis, hasStore, registry, wcall, wstarted, observed>>
    /\ UNCHANGED notWorkflow

RunNode(w) == RunNodeWith(w, {"AuditError"})

\* await self._store.set_risk_state(current.event_id, current); return current
WriteSnapshot(w) ==
    /\ wpc[w] = "snapshot"
    /\ \E ok \in BOOLEAN :
         IF ok
         THEN /\ redis' = set_cache(StoreKey(wcall[w].kind, current[w].event_id),
                                    StateToJson(wcall[w].kind, current[w]))
              /\ wlog' = [wlog EXCEPT ![w].writes = @ + 1]
              /\ wresult' = [wresult EXCEPT ![w] = ReturnedState(current[w])]
              /\ wpc' = [wpc EXCEPT ![w] = "done"]
              /\ UNCHANGED failure_count
         ELSE RunRaises(w, "RedisError") /\ UNCHANGED <<redis, wlog>>
    /\ UNCHANGED <<hasStore, registry, auditSink, wcall, current, wpos, wstarted,
                   observed>>
    /\ UNCHANGED notWorkflow

\* a snapshot's TTL (ttl_seconds) runs out
SnapshotExpire(kind, event_id) ==
    /\ StoreKey(kind, event_id) \in DOMAIN redis
    /\ redis' = [x \in DOMAIN redis \ {StoreKey(kind, event_id)} |-> redis[x]]
    /\ UNCHANGED workflowOnly
    /\ UNCHANGED notWorkflow

\* the workflows are built: with a store and any of the registry setups, or
\* with neither store nor registries
WorkflowInit ==
    /\ IngestInit
    /\ hasStore \in BOOLEAN
    /\ registry \in (IF hasStore THEN RegistrySetups ELSE {NoRegistry})
    /\ observed = FALSE
    /\ RunsIdle
    /\ IdleBut("workflow")

WorkflowNext ==
    \/ \E w \in Run : RunCall(w)
    \/ \E w \in Run : ResolveVersions(w)
    \/ \E w \in Run : RunNode(w)
    \/ \E w \in Run : WriteSnapshot(w)
    \/ \E kind \in Kinds, e \in EventIds : SnapshotExpire(kind, e)

SpecWorkflow == WorkflowInit /\ [][WorkflowNext]_vars

(***************************************************************************)
(* Claims about the workflow runtime.                                      *)
(***************************************************************************)
RunDone(w) == wpc[w] = "done"
RunReturned(w) == RunDone(w) /\ wresult[w].kind = "state"
RunRaised(w) == RunDone(w) /\ wresult[w].kind = "raised"

\* C10: a run (risk or compliance, store configured) called while the store
\* holds a snapshot for state.event_id returns exactly that snapshot, which is
\* the state the run that wrote it returned; the run executes no node, emits
\* no audit record and does not write the snapshot.  (The only other outcome
\* is that reading the store itself raises; the run then raises that error,
\* with the same frame.)
C10_ReplayReturnsSnapshot ==
    \A w \in Run :
        (RunDone(w) /\ wlog[w].found # None) =>
            /\ hasStore
            /\ wlog[w].ran = <<>>
            /\ wlog[w].emitted = 0
            /\ wlog[w].writes = 0
            /\ IF RunRaised(w) THEN wresult[w].error = "RedisError"
               ELSE /\ wresult[w] =
                         ReturnedState(_state_from_json(wlog[w].found[1]))
                    /\ \E q \in Run \ {w} :
                         /\ wlog[q].writes = 1
                         /\ wresult[q] = wresult[w]

\* a snapshot written by a run that executed nodes was found and returned by
\* a later run with the same event_id
C10_Witness ==
    \E w \in Run, q \in Run :
        /\ q # w
        /\ RunReturned(w) /\ wlog[w].found # None
        /\ RunReturned(q) /\ wlog[q].writes = 1 /\ Len(wlog[q].ran) = 5
        /\ wcall[q].state.event_id = wcall[w].state.event_id
        /\ wcall[q].state # wcall[w].state
        /\ wresult[w] = wresult[q]

\* the node names of a state's audit_trail, in trail order
TrailNodes(state) ==
    [i \in DOMAIN state.audit_trail |-> state.audit_trail[i].node]
\* the nodes of NODE_ORDER a state's audit_trail does not name, in order
Pending(state) == SelectSeq(NODE_ORDER, LAMBDA n : ~_node_done(state, n))
IsPrefix(s, t) == Len(s) <= Len(t) /\ s = SubSeq(t, 1, Len(s))
\* the run found no snapshot and went through the nodes
RunCompleted(w) == RunReturned(w) /\ wlog[w].found = None

\* C11: the nodes a run executes are, in NODE_ORDER's order, the nodes the
\* input state's trail does not name; a run that completes from an empty
\* trail returns a trail of exactly the five entries in that order; a run
\* writes the snapshot at most once and only after all its nodes have
\* returned, and a run that completes on a workflow with a store writes it
\* exactly once; every stored snapshot names all five nodes.
C11_NodeOrderAndSnapshot ==
    /\ \A w \in Run :
        /\ IsPrefix(wlog[w].ran, Pending(wcall[w].state))
        /\ wlog[w].writes <= 1
        /\ wlog[w].writes = 1 =>
              /\ RunCompleted(w)
              /\ wlog[w].ran = Pending(wcall[w].state)
        /\ RunCompleted(w) =>
              /\ wlog[w].ran = Pending(wcall[w].state)
              /\ wlog[w].writes = (IF hasStore THEN 1 ELSE 0)
              /\ \A i \in DOMAIN NODE_ORDER :
                    _node_done(wresult[w].state, NODE_ORDER[i])
              /\ wcall[w].state.audit_trail = <<>> =>
                    TrailNodes(wresult[w].state) = NODE_ORDER
    /\ \A kind \in Kinds, e \in EventIds :
          StoreKey(kind, e) \in DOMAIN redis =>
              TrailNodes(_state_from_json(redis[StoreKey(kind, e)])) = NODE_ORDER

\* a run from an empty trail executed the five nodes and wrote the snapshot
C11_Witness ==
    \E w \in Run :
        /\ RunCompleted(w)
        /\ wcall[w].state.audit_trail = <<>>
        /\ wlog[w].ran = NODE_ORDER
        /\ Len(wresult[w].state.audit_trail) = 5
        /\ wlog[w].writes = 1
        /\ StoreKey(wcall[w].kind, wcall[w].state.event_id) \in DOMAIN redis

\* the state field that holds a node's stage result
StageField(node) ==
    CASE node = "retrieval" -> "retrieved_context"
      [] node = "policy_validation" -> "policy_result"
      [] node = "risk_scoring" -> "risk_score"
      [] node = "guardrails" -> "guardrail_result"
      [] node = "decision" -> "final_decision"
\* the nodes a state's audit_trail names
Named(state) == {TrailNodes(state)[i] : i \in DOMAIN state.audit_trail}
Executed(w) == {wlog[w].ran[i] : i \in DOMAIN wlog[w].ran}

\* C12: a run that finds no snapshot and whose input state's audit_trail
\* names a node does not execute
\* that node and emits no audit record for it (it emits one record per node
\* it executes), the node's stage result stays as the input state holds it,
\* and when the run completes the nodes the trail did not name have run and
\* the returned state holds a final decision.
C12_NamedNodesSkipped ==
    \A w \in Run :
        wlog[w].found = None =>
            /\ Executed(w) \cap Named(wcall[w].state) = {}
            /\ wlog[w].emitted = Len(wlog[w].ran)
            /\ \A n \in Named(wcall[w].state) :
                  /\ wpc[w] \in {"nodes", "snapshot"} =>
                        current[w][StageField(n)] =
                            wcall[w].state[StageField(n)]
                  /\ RunReturned(w) =>
                        wresult[w].state[StageField(n)] =
                            wcall[w].state[StageField(n)]
            /\ RunReturned(w) =>
                  /\ Executed(w) =
                        {NODE_ORDER[i] : i \in DOMAIN NODE_ORDER}
                            \ Named(wcall[w].state)
                  /\ wresult[w].state.final_decision # None

\* a run resumed from a trail of two nodes executed the other three only
C12_Witness ==
    \E w \in Run :
        /\ RunReturned(w) /\ wlog[w].found = None
        /\ Named(wcall[w].state) = {"retrieval", "policy_validation"}
        /\ wlog[w].ran = <<"risk_scoring", "guardrails", "decision">>
        /\ wlog[w].emitted = 3
        /\ wresult[w].state.retrieved_context = wcall[w].state.retrieved_context
        /\ wresult[w].state.final_decision # None

\* Runs made one after the other: run is called again only when the calls
\* made before have ended.
ResumeNext ==
    \/ \E w \in Run : (\A q \in 1 .. wstarted : wpc[q] = "done") /\ RunCall(w)
    \/ \E w \in Run : ResolveVersions(w)
    \/ \E w \in Run : RunNode(w)
    \/ \E w \in Run : WriteSnapshot(w)

SpecResume == WorkflowInit /\ [][ResumeNext]_vars

\* C13: when a run for an event_id has failed after some of its nodes had
\* completed, a run called afterwards with the same event_id executes none
\* of the nodes the failed run completed (and so emits no second audit
\* record for them).
C13_ResumeSkipsCompleted ==
    \A w \in Run, q \in Run :
        ( /\ q < w
          /\ RunRaised(q)
          /\ wcall[q].kind = wcall[w].kind
          /\ wcall[q].state.event_id = wcall[w].state.event_id ) =>
            Executed(w) \cap Executed(q) = {}

\* the fields a node may write besides audit_trail
NodeWrites(kind, node) ==
    IF kind = "compliance" /\ node = "decision"
    THEN {"final_decision", "approval_required"}
    ELSE {StageField(node)}
\* s2 is what node n returns for s: s with the node's fields written and
\* exactly one entry naming n appended to the trail
NodeResult(kind, n, s, s2) ==
    /\ DOMAIN s2 = DOMAIN s
    /\ Len(s2.audit_trail) = Len(s.audit_trail) + 1
    /\ SubSeq(s2.audit_trail, 1, Len(s.audit_trail)) = s.audit_trail
    /\ s2.audit_trail[Len(s2.audit_trail)].node = n
    /\ \A f \in DOMAIN s \ (NodeWrites(kind, n) \cup {"audit_trail"}) :
          s2[f] = s[f]
\* the states a node can be given: every input state after any number of nodes
NodeInputs(kind) ==
    {AfterNodes(kind, call.state, k) :
        call \in {c \in RunInputs : c.kind = kind /\ c.state.audit_trail = <<>>},
        k \in 0 .. Len(NODE_ORDER)}

DecisionInputs ==
    { [kind |-> kind,
       state |-> transition(
                    AfterNodes(kind, NewState(kind, "e1", RawEventOf("e1")), 4),
                    [policy_result |-> p, risk_score |-> r,
                     guardrail_result |-> g, regulatory_flags |-> flags])] :
        kind \in Kinds,
        p \in {None, Some("PASS"), Some("FAIL")},
        r \in {None, Some(0), Some(HIGH_RISK_THRESHOLD - 1),
               Some(HIGH_RISK_THRESHOLD), Some(HIGH_RISK_THRESHOLD + 10)},
        g \in {None, Some("OK"), Some("VIOLATION")},
        flags \in {<<>>, <<"GDPR">>} }

DecisionNext ==
    \/ RunCallWith(1, DecisionInputs)
    \/ ResolveVersions(1)
    \/ RunNode(1)
    \/ WriteSnapshot(1)

SpecDecision == WorkflowInit /\ [][DecisionNext]_vars

\* C15: after the decision node has run, final_decision is REQUIRE_APPROVAL
\* if policy_result is FAIL or risk_score (0 when missing) is at least 75 or
\* guardrail_result is VIOLATION or, in the compliance workflow,
\* regulatory_flags is non-empty, and APPROVED otherwise; in the compliance
\* workflow approval_required is true exactly when final_decision is
\* REQUIRE_APPROVAL.
C15_DecisionRule ==
    \A w \in Run :
        "decision" \in Executed(w) =>
            LET s == current[w]
                escalate ==
                    \/ s.policy_result = <<"FAIL">>
                    \/ (s.risk_score # <<>> /\ s.risk_score[1] >= 75)
                    \/ s.guardrail_result = <<"VIOLATION">>
                    \/ (wcall[w].kind = "compliance"
                          /\ s.regulatory_flags # <<>>)
            IN /\ s.final_decision =
                    (IF escalate THEN <<"REQUIRE_APPROVAL">> ELSE <<"APPROVED">>)
               /\ wcall[w].kind = "compliance" =>
                    (s.approval_required <=>
                        s.final_decision = <<"REQUIRE_APPROVAL">>)

\* the decision node ran on a state whose only ground for escalation is a
\* risk score equal to the threshold
C15_Witness ==
    \E w \in Run :
        /\ wlog[w].ran = <<"decision">>
        /\ wcall[w].kind = "risk"
        /\ current[w].risk_score = <<75>>
        /\ current[w].policy_result = <<"PASS">>
        /\ current[w].guardrail_result = <<"OK">>
        /\ current[w].final_decision = <<"REQUIRE_APPROVAL">>

(***************************************************************************)
(* Version resolution on its own: one run on a workflow whose registries   *)
(* hold, for the default model name, no record or a record of any status.  *)
(***************************************************************************)
ModelStatus == {"PENDING", "APPROVED", "REJECTED"}
\* registries whose latest record of each model name has the given status
\* ("absent": no record), with or without a prompt record
VersionSetups ==
    { [models |-> Some([n \in {"risk-model", "compliance-model"} |->
                          IF st = "absent" THEN None
                          ELSE Some(ModelRecord(n, "2", st))]),
       prompts |-> Some([p \in {"risk-prompt", "compliance-prompt"} |->
                          IF hasPrompt THEN Some(PromptRecord(p, 2)) ELSE None])] :
        st \in ModelStatus \cup {"absent"}, hasPrompt \in BOOLEAN }

VersionsInit ==
    /\ IngestInit
    /\ hasStore \in BOOLEAN
    /\ registry \in VersionSetups
    /\ observed = FALSE
    /\ RunsIdle
    /\ IdleBut("workflow")

VersionsNext ==
    \/ RunCall(1)
    \/ ResolveVersions(1)
    \/ RunNode(1)
    \/ WriteSnapshot(1)

SpecVersions == VersionsInit /\ [][VersionsNext]_vars

\* the record the model registry holds for the workflow's default model name
DefaultModelRecord(kind) ==
    IF registry.models = None THEN None
    ELSE registry.models[1][IF kind = "compliance" THEN "compliance-model"
                            ELSE "risk-model"]

\* C16: once a run has resolved its versions, the state's model_version is
\* "{name}@{version}" of the registry's record for the workflow's default
\* model name only when that record is APPROVED; when the record is PENDING,
\* REJECTED or absent, it is the built-in default version.
C16_OnlyApprovedVersion ==
    \A w \in Run :
        wpc[w] \in {"nodes", "snapshot"} =>
            LET rec == DefaultModelRecord(wcall[w].kind) IN
            current[w].model_version =
                IF rec # None /\ rec[1].status = "APPROVED"
                THEN rec[1].model_name \o "@" \o rec[1].version
                ELSE DEFAULT_MODEL_VERSION

(***************************************************************************)
(* Node failures.  The workflows are built with or without a store and     *)
(* with or without the failure classifier and the metrics collector; the   *)
(* audit repository's save may raise an error of the taxonomy or one       *)
(* outside it.                                                             *)
(***************************************************************************)
NodeErrors == {"AuditError", "GovernanceError"}
FailureInputs ==
    { [kind |-> kind, state |-> AfterNodes(kind, NewState(kind, "e1", RawEventOf("e1")), k)] :
        kind \in Kinds, k \in {0, 2} }

FailuresInit ==
    /\ IngestInit
    /\ hasStore \in BOOLEAN
    /\ registry = NoRegistry
    /\ observed \in BOOLEAN
    /\ RunsIdle
    /\ IdleBut("workflow")

FailuresNext ==
    \/ \E w \in Run : RunCallWith(w, FailureInputs)
    \/ \E w \in Run : RunNodeWith(w, NodeErrors)
    \/ \E w \in Run : WriteSnapshot(w)

SpecFailures == FailuresInit /\ [][FailuresNext]_vars

NodeFailed(w) == wlog[w].failed # None
\* the runs that raised an error of category c
RaisedIn(c) == {w \in Run : RunRaised(w) /\ classify(wresult[w].error) = c}

\* C17: when a node raises during run, the run raises that error to its
\* caller, the nodes it executed are exactly the pending nodes before the one
\* that raised (none after it), the run wrote no snapshot, and, with
\* classifier and metrics wired, failure_count of each category counts the
\* runs that raised an error of that category, one apiece (without them it
\* stays zero).
C17_NodeFailurePropagates ==
    /\ \A w \in Run :
         NodeFailed(w) =>
           LET failed == wlog[w].failed[1] IN
           /\ RunRaised(w)
           /\ wresult[w].error = failed.error
           /\ IsPrefix(Append(wlog[w].ran, failed.node),
                       Pending(wcall[w].state))
           /\ wlog[w].writes = 0
    /\ \A c \in FailureCategory :
         failure_count[c] = IF observed THEN Cardinality(RaisedIn(c)) ELSE 0

\* a node of a run with store, classifier and metrics raised an error of the
\* taxonomy after an earlier node of the run had executed, and the error was
\* counted under its category
C17_Witness ==
    /\ hasStore /\ observed
    /\ \E w \in Run :
         /\ NodeFailed(w)
         /\ wlog[w].failed[1].error = "GovernanceError"
         /\ wlog[w].ran # <<>>
         /\ failure_count["POLICY_VIOLATION"] = 1
         /\ failure_count["UNEXPECTED_ERROR"] = 0

(***************************************************************************)
(* CircuitBreaker.call.  The lock is an asyncio.Lock and no block that     *)
(* holds it awaits: each block is one step.  A call is two steps: the      *)
(* admission (lines 64-73) up to the await of the wrapped function, and    *)
(* the function's end with the bookkeeping that follows (74-84).  Between  *)
(* the two, other calls and the clock may move.  metrics_callback is not   *)
(* wired.                                                                  *)
(***************************************************************************)
\* variant: the counter is zeroed but the state is left as it is
_record_success_keeps_state(b) ==
    [b EXCEPT !.failures = 0]

_record_success(b) ==
    [b EXCEPT !.failures = 0, !.state = CLOSED]

\* variant: the breaker opens only above the threshold
_record_failure_above_only(b, t) ==
    [b EXCEPT !.last_failure_time = Some(t),
              !.failures = @ + 1,
              !.state = IF b.failures + 1 > b.threshold THEN OPEN ELSE @]

_record_failure(b, t) ==
    [b EXCEPT !.last_failure_time = Some(t),
              !.failures = @ + 1,
              !.state = IF b.failures + 1 >= b.threshold THEN OPEN ELSE @]

\* variant: the recovery timeout must be exceeded
Recovered_after_only(b, t) ==
    /\ b.last_failure_time # None
    /\ t - b.last_failure_time[1] > b.recovery_timeout

\* time.monotonic() - self._last_failure_time >= self._recovery_timeout
Recovered(b, t) ==
    /\ b.last_failure_time # None
    /\ t - b.last_failure_time[1] >= b.recovery_timeout

\* call, lines 64-73: the admission.  OPEN and not recovered: RuntimeError;
\* otherwise func is awaited
CallAdmit(c) ==
    /\ c = cstarted + 1
    /\ cpc[c] = "idle"
    /\ cstarted' = c
    /\ LET rejected == cb.state = OPEN /\ ~Recovered(cb, now) IN
       /\ cb' = IF cb.state = OPEN /\ Recovered(cb, now)
                THEN [cb EXCEPT !.state = HALF_OPEN] ELSE cb
       /\ cpc' = [cpc EXCEPT ![c] = IF rejected THEN "done" ELSE "func"]
       /\ clog' = [clog EXCEPT ![c] =
                     [seen |-> cb.state,
                      outcome |-> IF rejected THEN "open" ELSE "none"]]
    /\ UNCHANGED now
    /\ UNCHANGED notBreaker

\* call, lines 75-78: func returned
CallSuccess(c) ==
    /\ cb' = _record_success(cb)
    /\ clog' = [clog EXCEPT ![c].outcome = "result"]

\* call, lines 79-84: func raised
CallFailure(c) ==
    /\ LET b == _record_failure(cb, now) IN
       cb' = IF b.state = HALF_OPEN THEN [b EXCEPT !.state = OPEN] ELSE b
    /\ clog' = [clog EXCEPT ![c].outcome = "raised"]

\* the awaited func ends and call does its bookkeeping
CallComplete(c) ==
    /\ cpc[c] = "func"
    /\ cpc' = [cpc EXCEPT ![c] = "done"]
    /\ CallSuccess(c) \/ CallFailure(c)
    /\ UNCHANGED <<now, cstarted>>
    /\ UNCHANGED notBreaker

\* the monotonic clock moves on
Tick ==
    /\ now < MaxTime
    /\ now' = now + 1
    /\ UNCHANGED <<cb, cpc, clog, cstarted>>
    /\ UNCHANGED notBreaker

Thresholds == {1, 2}
Timeouts == {1, 2}

BreakerInit ==
    /\ IngestInit
    /\ IdleBut("breaker")
    /\ \E th \in Thresholds, rt \in Timeouts : BreakerAt(th, rt)

BreakerNext ==
    \/ \E c \in Call : CallAdmit(c)
    \/ \E c \in Call : CallComplete(c)
    \/ Tick

SpecBreaker == BreakerInit /\ [][BreakerNext]_vars

(***************************************************************************)
(* Claims about the circuit breaker.                                       *)
(***************************************************************************)
\* call c is admitted or rejected in this step
Admission(c) == cpc[c] = "idle" /\ cpc'[c] # "idle"
\* the function of call c returns / raises in this step
Succeeds(c) == cpc[c] = "func" /\ cpc'[c] = "done" /\ clog'[c].outcome = "result"
Fails(c) == cpc[c] = "func" /\ cpc'[c] = "done" /\ clog'[c].outcome = "raised"
Ended(c, outcome) == cpc[c] = "done" /\ clog[c].outcome = outcome

\* C18: while the breaker is CLOSED a call is always passed to the wrapped
\* function; a call that succeeds then leaves the counter at zero and the
\* state CLOSED; a call that fails then adds one to the counter and the state
\* becomes OPEN exactly when the counter has reached failure_threshold,
\* staying CLOSED otherwise.  The breaker is CLOSED exactly as long as the
\* counter is below the threshold.
C18_ClosedCountsFailures ==
    /\ [](cb.state = CLOSED <=> cb.failures < cb.threshold)
    /\ [][\A c \in Call :
            cb.state = CLOSED =>
              /\ Admission(c) => cpc'[c] = "func" /\ cb' = cb
              /\ Succeeds(c) => cb'.failures = 0 /\ cb'.state = CLOSED
              /\ Fails(c) =>
                   /\ cb'.failures = cb.failures + 1
                   /\ cb'.state = IF cb'.failures = cb.threshold THEN OPEN
                                  ELSE CLOSED]_vars

\* with threshold 2: one failure, a success, and two more failures, all on a
\* CLOSED breaker, and only the last one opened it
C18_Witness ==
    /\ cb.threshold = 2 /\ cb.state = OPEN /\ cb.failures = 2
    /\ \A c \in 1 .. 4 : clog[c].seen = CLOSED
    /\ Ended(1, "raised") /\ Ended(2, "result")
    /\ Ended(3, "raised") /\ Ended(4, "raised")

\* the time since the last recorded failure is below the recovery timeout
Recovering == cb.last_failure_time # None
              /\ now - cb.last_failure_time[1] < cb.recovery_timeout

\* C19: an OPEN breaker has a last failure time; a call made while it is OPEN
\* and less than recovery_timeout has passed since the last recorded failure
\* ends at once with the OPEN error, its function never invoked and the
\* breaker untouched; a call made while it is OPEN and recovery_timeout has
\* passed is passed to its function and the state becomes HALF_OPEN.
C19_OpenRejectsUntilRecovery ==
    /\ [](cb.state = OPEN => cb.last_failure_time # None)
    /\ [][\A c \in Call :
            cb.state = OPEN /\ Admission(c) =>
              IF Recovering
              THEN cpc'[c] = "done" /\ clog'[c].outcome = "open" /\ cb' = cb
              ELSE /\ cpc'[c] = "func"
                   /\ cb' = [cb EXCEPT !.state = HALF_OPEN]]_vars

\* a call was rejected by the OPEN breaker, and a later call, made exactly
\* recovery_timeout after the last failure, is with its function and the
\* breaker HALF_OPEN
C19_Witness ==
    \E c, d \in Call :
        /\ c < d
        /\ clog[c].seen = OPEN /\ Ended(c, "open")
        /\ clog[d].seen = OPEN /\ cpc[d] = "func"
        /\ cb.state = HALF_OPEN
        /\ now - cb.last_failure_time[1] = cb.recovery_timeout

\* C20: when a call's function returns while the breaker is HALF_OPEN the
\* breaker becomes CLOSED with the counter at zero; when it raises while the
\* breaker is HALF_OPEN the breaker becomes OPEN and its last failure time is
\* the time of that failure, so that calls are rejected until
\* recovery_timeout has passed again.
C20_HalfOpenProbe ==
    [][\A c \in Call :
         cb.state = HALF_OPEN =>
           /\ Succeeds(c) => cb'.state = CLOSED /\ cb'.failures = 0
           /\ Fails(c) =>
                /\ cb'.state = OPEN
                /\ cb'.last_failure_time = Some(now)
                /\ cb'.recovery_timeout > 0 =>
                     cb'.last_failure_time # None
                     /\ now - cb'.last_failure_time[1] < cb'.recovery_timeout]_vars

\* threshold 1: the first call failed and opened the breaker; the second was
\* admitted as the probe and failed; the third was rejected by the breaker
\* the probe had re-opened; the fourth was admitted as the next probe,
\* returned and closed the breaker
C20_Witness ==
    /\ cb.state = CLOSED /\ cb.failures = 0
    /\ clog[1].seen = CLOSED /\ Ended(1, "raised")
    /\ clog[2].seen = OPEN /\ Ended(2, "raised")
    /\ clog[3].seen = OPEN /\ Ended(3, "open")
    /\ clog[4].seen = OPEN /\ Ended(4, "result")

(***************************************************************************)
(* BulkheadExecutor.  submit puts its item in the asyncio.Queue and awaits *)
(* the item's future; the one worker task takes the items one by one and   *)
(* awaits each task inside the semaphore.  The worker suspends at          *)
(* queue.get() on an empty queue and at the await of the task; what lies   *)
(* between two suspensions is one step.                                    *)
(***************************************************************************)
\* variant: a queue of maxsize 0 holds nothing
QueueFull_zero_holds_nothing(b) ==
    Len(b.queue) >= b.max_queued

\* asyncio.Queue(maxsize=max_queued).full(): a maxsize of 0 means no limit
QueueFull(b) ==
    b.max_queued > 0 /\ Len(b.queue) >= b.max_queued

\* _ensure_worker: the worker task is created on the first submit, and again
\* by a submit that finds the worker task done
_ensure_worker(b) ==
    IF b.worker \in {"none", "done"} THEN [b EXCEPT !.worker = "get"] ELSE b

Waiting(s) == subs[s].pc = "waiting"
Running(s) == subs[s].pc = "running"

\* variant: the worker takes the item submitted last
QueueGet_newest(queue) == queue[Len(queue)]

\* asyncio.Queue.get: the item put first
QueueGet(queue) == queue[1]

\* variant: the task is awaited without being counted
TakeNext_uncounted(b) ==
    LET s == QueueGet(b.queue) IN
    [b EXCEPT !.queue = SelectSeq(b.queue, LAMBDA x : x # s),
              !.permits = @ - 1, !.worker = "task", !.task = s]

\* _run_worker, lines 38-44: the worker takes the next item, enters the
\* semaphore, counts the task as active and awaits it
TakeNext(b) ==
    LET s == QueueGet(b.queue) IN
    [b EXCEPT !.queue = SelectSeq(b.queue, LAMBDA x : x # s),
              !.permits = @ - 1, !.active = @ + 1,
              !.worker = "task", !.task = s]

\* submit: the item is queued, or the queue is full and submit raises
submit(s) ==
    /\ subs[s].pc = "idle"
    /\ \A q \in 1 .. s - 1 : subs[q].pc # "idle"
    /\ LET b == _ensure_worker(bh)
           free == bh.active < bh.max_concurrent
       IN IF QueueFull(b)
          THEN /\ bh' = b
               /\ subs' = [subs EXCEPT ![s] =
                             [pc |-> "done", outcome |-> "queue_full",
                              free |-> free, waited |-> FALSE]]
          ELSE /\ bh' = [b EXCEPT !.queue = Append(@, s)]
               /\ subs' = [subs EXCEPT ![s] =
                             [pc |-> "waiting", outcome |-> "none",
                              free |-> free, waited |-> FALSE]]
    /\ UNCHANGED notBulkhead

\* the worker, suspended at queue.get(), is resumed with an item
WorkerGet ==
    /\ bh.worker = "get"
    /\ bh.queue # <<>>
    /\ bh.permits > 0
    /\ bh' = TakeNext(bh)
    /\ subs' = [subs EXCEPT ![QueueGet(bh.queue)].pc = "running"]
    /\ UNCHANGED notBulkhead

\* what the awaited task does when it ends: it returns, it raises an
\* Exception, or it raises an exception outside Exception (in Python 3.8 and
\* later asyncio.CancelledError, raised for instance by awaiting a cancelled
\* task, is a BaseException)
TaskOutcomes == {"result", "raised", "raised_base"}

\* _run_worker, lines 45-52, when the task returns or raises an Exception:
\* the future is resolved, the task is no longer active, the semaphore is
\* left, and the worker goes round its loop to the next item or to the
\* suspension at queue.get()
TaskResolved(outcome) ==
    LET left == [bh EXCEPT !.active = @ - 1, !.permits = @ + 1,
                           !.worker = "get", !.task = 0]
        next == left.queue # <<>>
    IN /\ bh' = IF next THEN TakeNext(left) ELSE left
       /\ subs' = [s \in Sub |->
                     IF s = bh.task
                     THEN [subs[s] EXCEPT !.pc = "done", !.outcome = outcome]
                     ELSE IF ~Waiting(s) THEN subs[s]
                     ELSE IF next /\ s = QueueGet(left.queue)
                     THEN [subs[s] EXCEPT !.pc = "running", !.waited = TRUE]
                     ELSE [subs[s] EXCEPT !.waited = TRUE]]

\* _run_worker, lines 46-52, when the task raises outside Exception: the
\* finally block and the semaphore exit run, "except Exception" does not
\* catch, the future is left unresolved and the worker task ends
TaskEscapes ==
    /\ bh' = [bh EXCEPT !.active = @ - 1, !.permits = @ + 1,
                        !.worker = "done", !.task = 0]
    /\ subs' = [s \in Sub |->
                  IF s = bh.task THEN [subs[s] EXCEPT !.pc = "abandoned"]
                  ELSE IF Waiting(s) THEN [subs[s] EXCEPT !.waited = TRUE]
                  ELSE subs[s]]

\* the awaited task ends
TaskEnd ==
    /\ bh.worker = "task"
    /\ \E outcome \in TaskOutcomes :
         IF outcome = "raised_base" THEN TaskEscapes ELSE TaskResolved(outcome)
    /\ UNCHANGED notBulkhead

MaxConcurrents == {1, 2}
MaxQueueds == {0, 1, 2}

BulkheadInit ==
    /\ IngestInit
    /\ IdleBut("bulkhead")
    /\ \E mc \in MaxConcurrents, mq \in MaxQueueds : BulkheadAt(mc, mq)

BulkheadNext ==
    \/ \E s \in Sub : submit(s)
    \/ WorkerGet
    \/ TaskEnd

SpecBulkhead == BulkheadInit /\ [][BulkheadNext]_vars

(***************************************************************************)
(* Claims about the bulkhead.                                              *)
(***************************************************************************)
NumRunning == Cardinality({s \in Sub : Running(s)})
NumWaiting == Cardinality({s \in Sub : Waiting(s)})

\* C21: the number of tasks running plus the number of submissions waiting
\* never exceeds max_concurrent + max_queued.
C21_TotalBounded ==
    NumRunning + NumWaiting <= bh.max_concurrent + bh.max_queued

\* C22: the number of tasks executing is at most max_concurrent, and
\* active_count equals that number (and so is never negative).
C22_ActiveBounded ==
    /\ NumRunning <= bh.max_concurrent
    /\ bh.active = NumRunning
    /\ bh.active + bh.permits = bh.max_concurrent
    /\ bh.active \in Nat

\* a task is executing while another submission waits
C22_Witness ==
    /\ bh.max_concurrent = 2
    /\ NumRunning = 1 /\ bh.active = 1
    /\ NumWaiting >= 1
    /\ \E s \in Sub : subs[s].outcome = "result"


\* the task of submission s starts in this step
Starts(s) == Waiting(s) /\ subs'[s].pc = "running"

\* C23: a submission is rejected with the queue-full error only when all
\* max_concurrent slots were busy (and max_queued submissions waiting); a
\* submission made while a slot was free starts without any task ending
\* between its submission and its start; waiting submissions start in the
\* order they were made.
C23_RejectOnlyWhenSaturated ==
    /\ [](\A s \in Sub :
            /\ subs[s].outcome = "queue_full" => ~subs[s].free
            /\ subs[s].free /\ subs[s].pc \in {"running", "done"} =>
                 ~subs[s].waited)
    /\ [][\A s \in Sub :
            Starts(s) => \A q \in Sub : Waiting(q) => s <= q]_vars


(***************************************************************************)
(* DistributedLock over RedisClient.  acquire and release each await one   *)
(* backend call: one step each.  A backend call that raises has had no     *)
(* effect on the store.                                                    *)
(***************************************************************************)
\* DistributedLock._key
DistributedLock_key(key) == LOCK_PREFIX \o key

\* str(uuid.uuid4()) of the n-th acquire call: fresh for every call
LockToken(n) == "t" \o ToString(n)

\* variant: SET without NX, the entry is written whatever the store holds
set_nx_ex_overwrites(store, key, value) ==
    [ok |-> TRUE,
     store |-> [k \in DOMAIN store \cup {key} |->
                  IF k = key THEN value ELSE store[k]]]

\* RedisClient.set_nx_ex: SET key value NX EX ttl
set_nx_ex(store, key, value) ==
    IF key \in DOMAIN store THEN [ok |-> FALSE, store |-> store]
    ELSE [ok |-> TRUE,
          store |-> [k \in DOMAIN store \cup {key} |->
                       IF k = key THEN value ELSE store[k]]]

\* RedisClient.delete_if_value: the compare-and-delete script
delete_if_value(store, key, value) ==
    IF key \in DOMAIN store /\ store[key] = value
    THEN [k \in DOMAIN store \ {key} |-> store[k]]
    ELSE store

\* dict.pop(key, None) and its two results
DictGet(d, key) == IF key \in DOMAIN d THEN Some(d[key]) ELSE None
DictDrop(d, key) == [k \in DOMAIN d \ {key} |-> d[k]]

LockCall(h, op, key, returned, token) ==
    [holder |-> h, op |-> op, key |-> key, result |-> returned, token |-> token]

\* acquire(key, ttl) called by holder h
Acquire(h, key) ==
    /\ Len(lockLog) < MaxLockCalls
    /\ LET i == lockInst[h]
           full_key == DistributedLock_key(key)
           token == LockToken(Len(lockLog) + 1)
           set == set_nx_ex(redis, full_key, token)
       IN \/ /\ redis' = set.store
             /\ lockTokens' = IF set.ok
                              THEN [lockTokens EXCEPT ![i] =
                                      [k \in DOMAIN @ \cup {key} |->
                                         IF k = key THEN token ELSE @[k]]]
                              ELSE lockTokens
             /\ lockLog' = Append(lockLog,
                                  LockCall(h, "acquire", key,
                                           IF set.ok THEN "true" ELSE "false", token))
          \/ \* the backend raises
             /\ lockLog' = Append(lockLog,
                                  LockCall(h, "acquire", key, "raised", token))
             /\ UNCHANGED <<redis, lockTokens>>
    /\ UNCHANGED lockInst
    /\ UNCHANGED notLock

\* release(key) called by holder h
Release(h, key) ==
    /\ Len(lockLog) < MaxLockCalls
    /\ LET i == lockInst[h]
           full_key == DistributedLock_key(key)
           token == DictGet(lockTokens[i], key)
       IN /\ lockTokens' = [lockTokens EXCEPT ![i] = DictDrop(@, key)]
          /\ IF token = None
             THEN /\ lockLog' = Append(lockLog,
                                       LockCall(h, "release", key, "none", ""))
                  /\ UNCHANGED redis
             ELSE \/ /\ redis' = delete_if_value(redis, full_key, token[1])
                     /\ lockLog' = Append(lockLog,
                                          LockCall(h, "release", key, "done", token[1]))
                  \/ \* the backend raises
                     /\ lockLog' = Append(lockLog,
                                          LockCall(h, "release", key, "raised", token[1]))
                     /\ UNCHANGED redis
    /\ UNCHANGED lockInst
    /\ UNCHANGED notLock

\* the TTL of a lock entry runs out
LockExpire(key) ==
    /\ DistributedLock_key(key) \in DOMAIN redis
    /\ redis' = DictDrop(redis, DistributedLock_key(key))
    /\ UNCHANGED lockOnly
    /\ UNCHANGED notLock

LockInit ==
    /\ IngestInit
    /\ IdleBut("lock")
    /\ \E inst \in LockSetups : LocksAt(inst)

LockNext ==
    \/ \E h \in Holder, key \in LockKeys : Acquire(h, key)
    \/ \E h \in Holder, key \in LockKeys : Release(h, key)
    \/ \E key \in LockKeys : LockExpire(key)

SpecLock == LockInit /\ [][LockNext]_vars


(***************************************************************************)
(* Claims about the distributed lock.                                      *)
(***************************************************************************)
\* a call is made in this step, and the call made
LockCalled == Len(lockLog') = Len(lockLog) + 1
LastCall == lockLog'[Len(lockLog')]
Held(key) == DistributedLock_key(key) \in DOMAIN redis
StillHeld(key) == DistributedLock_key(key) \in DOMAIN redis'

OwnToken(h, key) ==
    LET mine == {i \in DOMAIN lockLog :
                   /\ lockLog[i].holder = h /\ lockLog[i].op = "acquire"
                   /\ lockLog[i].key = key /\ lockLog[i].result = "true"}
    IN IF mine = {} THEN None
       ELSE Some(lockLog[CHOOSE i \in mine : \A j \in mine : j <= i].token)

\* C25: a release by a holder whose own token is not the value stored for
\* the key (its lock expired and another holder acquired the key) leaves the
\* entry in place.
C25_StaleReleaseKeepsLock ==
    [][\A key \in LockKeys :
         ( /\ LockCalled /\ LastCall.op = "release" /\ LastCall.key = key
           /\ Held(key)
           /\ OwnToken(LastCall.holder, key) # Some(redis[DistributedLock_key(key)]) )
         => /\ StillHeld(key)
            /\ redis'[DistributedLock_key(key)] = redis[DistributedLock_key(key)]]_vars


(***************************************************************************)
(* TenantRateLimiter.allow_request over InMemoryRateLimitBackend.          *)
(* incr_window has no suspension point: a call is one step.                *)
(* metrics_callback is not wired.                                          *)
(***************************************************************************)
\* TenantRateLimiter._key
RateKey(tenant_id) == "rate:tenant:" \o tenant_id

\* variant: an entry exactly window_seconds old is kept
incr_window_keeps_cutoff(windows, key, window_seconds, t) ==
    LET old == IF key \in DOMAIN windows THEN windows[key] ELSE <<>>
        kept == SelectSeq(old, LAMBDA x : x + window_seconds >= t)
    IN [k \in DOMAIN windows \cup {key} |->
          IF k = key THEN Append(kept, t) ELSE windows[k]]

\* InMemoryRateLimitBackend.incr_window at time t: the windows it leaves.
\* cutoff = t - window_seconds; an entry x stays when x > cutoff
incr_window(windows, key, window_seconds, t) ==
    LET old == IF key \in DOMAIN windows THEN windows[key] ELSE <<>>
        kept == SelectSeq(old, LAMBDA x : x + window_seconds > t)
    IN [k \in DOMAIN windows \cup {key} |->
          IF k = key THEN Append(kept, t) ELSE windows[k]]

\* allow_request(tenant_id)
allow_request(tenant_id) ==
    /\ rl.calls < MaxAllow
    /\ LET key == RateKey(tenant_id)
           windows == incr_window(rl.windows, key, rl.window, rl.now)
           count == Len(windows[key])
       IN rl' = [rl EXCEPT !.windows = windows,
                           !.calls = @ + 1,
                           !.last = [tenant_id |-> tenant_id, count |-> count,
                                     allowed |-> count <= rl.limit]]
    /\ UNCHANGED notLimiter

\* the monotonic clock moves on
LimiterTick ==
    /\ rl.now < MaxTime
    /\ rl' = [rl EXCEPT !.now = @ + 1]
    /\ UNCHANGED notLimiter

RateTenants == {"t1", "t2"}
Limits == {1, 2}
Windows == {1, 2}

LimiterInit ==
    /\ IngestInit
    /\ IdleBut("limiter")
    /\ \E limit \in Limits, window \in Windows : rl = TenantRateLimiter(limit, window)

LimiterNext ==
    \/ \E tenant_id \in RateTenants : allow_request(tenant_id)
    \/ LimiterTick

SpecLimiter == LimiterInit /\ [][LimiterNext]_vars

(***************************************************************************)
(* Claims about the rate limiter.                                          *)
(***************************************************************************)
AllowCalled == rl'.calls = rl.calls + 1
WindowOf(windows, tenant_id) ==
    IF RateKey(tenant_id) \in DOMAIN windows THEN windows[RateKey(tenant_id)]
    ELSE <<>>

\* C26 as stated: a call for a tenant leaves in the tenant's window the
\* entries not older than window_seconds and the current time, allows the
\* request exactly when that window has at most requests_per_window entries
\* (denied requests stay in the window), and leaves the windows of the other
\* tenants as they were.
C26_WindowAndLimit ==
    [][AllowCalled =>
         LET tenant_id == rl'.last.tenant_id
             window == Append(SelectSeq(WindowOf(rl.windows, tenant_id),
                                        LAMBDA x : rl.now - x <= rl.window),
                              rl.now)
         IN /\ WindowOf(rl'.windows, tenant_id) = window
            /\ rl'.last.allowed <=> Len(window) <= rl.limit
            /\ \A other \in RateTenants \ {tenant_id} :
                 WindowOf(rl'.windows, other) = WindowOf(rl.windows, other)]_vars

\* C26, amended: the entries that stay are those less than window_seconds
\* old; an entry exactly window_seconds old is evicted.
C26_WindowAndLimit_amended ==
    [][AllowCalled =>
         LET tenant_id == rl'.last.tenant_id
             window == Append(SelectSeq(WindowOf(rl.windows, tenant_id),
                                        LAMBDA x : rl.now - x < rl.window),
                              rl.now)
         IN /\ WindowOf(rl'.windows, tenant_id) = window
            /\ rl'.last.allowed <=> Len(window) <= rl.limit
            /\ \A other \in RateTenants \ {tenant_id} :
                 WindowOf(rl'.windows, other) = WindowOf(rl.windows, other)]_vars

\* with limit 1 and window 2: a request at time 2 has found the entries of
\* time 0 gone (they were exactly window_seconds old) and was denied on a
\* count of two, the denied request of time 1 counted; the other tenant's
\* window is empty still
C26_Witness ==
    /\ rl.limit = 1 /\ rl.window = 2 /\ rl.now = 2 /\ rl.calls = 4
    /\ rl.last = [tenant_id |-> "t1", count |-> 2, allowed |-> FALSE]
    /\ WindowOf(rl.windows, "t1") = <<1, 2>>
    /\ WindowOf(rl.windows, "t2") = <<>>


(***************************************************************************)
(* The auto-scaling policy (app.scalability.autoscaling_policy).  evaluate *)
(* is a pure function of the policy and the metrics snapshot.  A signal is *)
(* None (no signal) or Some(value); values are whole numbers, so that      *)
(* value < up * 0.5 is 2 * value < up.                                     *)
(***************************************************************************)
MaxSignal == 3
MaxReplicas == 3

SCALE_UP == "scale_up"
SCALE_DOWN == "scale_down"
NO_ACTION == "no_action"

ScalingDecision(action, reason) == [action |-> action, reason |-> reason]

\* "x is not None and x >= up"
Breach(value, up) == value # None /\ value[1] >= up

\* "m.current_replicas < self._max_replicas", with a slip that lets the policy
\* grow once more at the maximum
HasRoom_at_max(p, m) == m.current_replicas <= p.max_replicas
HasRoom(p, m) == m.current_replicas < p.max_replicas

\* "x is None or x < up * 0.5"
Low(value, up) == value = None \/ 2 * value[1] < up

\* the f-string of a scale-up reason: the signal, its value and its threshold
UpReason(signal, value, up) == <<signal, value[1], ">=", up>>

evaluate(p, m) ==
    IF Breach(m.cpu_usage_pct, p.cpu_up) /\ HasRoom(p, m)
    THEN ScalingDecision(SCALE_UP, UpReason("cpu_usage", m.cpu_usage_pct, p.cpu_up))
    ELSE IF Breach(m.request_latency_p99_ms, p.latency_up) /\ HasRoom(p, m)
    THEN ScalingDecision(SCALE_UP,
             UpReason("latency_p99", m.request_latency_p99_ms, p.latency_up))
    ELSE IF Breach(m.failure_rate, p.failure_up) /\ HasRoom(p, m)
    THEN ScalingDecision(SCALE_UP, UpReason("failure_rate", m.failure_rate, p.failure_up))
    ELSE IF Breach(m.queue_depth, p.queue_up) /\ HasRoom(p, m)
    THEN ScalingDecision(SCALE_UP, UpReason("queue_depth", m.queue_depth, p.queue_up))
    ELSE IF m.current_replicas <= p.min_replicas
    THEN ScalingDecision(NO_ACTION, <<"at min_replicas">>)
    ELSE LET cpu_low == m.cpu_usage_pct = None \/ m.cpu_usage_pct[1] <= p.cpu_down
             latency_low == Low(m.request_latency_p99_ms, p.latency_up)
             failure_low == Low(m.failure_rate, p.failure_up)
             queue_low == Low(m.queue_depth, p.queue_up)
         IN  IF cpu_low /\ latency_low /\ failure_low /\ queue_low
             THEN ScalingDecision(SCALE_DOWN,
                      <<"all metrics below scale-down thresholds">>)
             ELSE ScalingDecision(NO_ACTION, <<"no scaling signal">>)

\* the call policy.evaluate(m) runs and returns
Evaluate ==
    /\ evaluated.decision = None
    /\ evaluated' = [evaluated EXCEPT
           !.decision = Some(evaluate(policy, evaluated.metrics))]
    /\ UNCHANGED policy
    /\ UNCHANGED notScaling

Signals == {None} \cup {Some(v) : v \in 0..MaxSignal}
Snapshots ==
    {MetricsSnapshot(c, l, f, q, r) :
        c \in Signals, l \in Signals, f \in Signals, q \in Signals,
        r \in 1..MaxReplicas}
Policies ==
    {AutoScalingPolicy(cu, cd, 2, 2, 3, lo, hi) :
        cu \in {2, 3}, cd \in {1, 2}, lo \in {1, 2}, hi \in {2, 3}}

ScalingInit ==
    /\ IngestInit
    /\ IdleBut("scaling")
    /\ policy \in Policies
    /\ \E m \in Snapshots : evaluated = ToEvaluate(m)

ScalingNext == Evaluate

SpecScaling == ScalingInit /\ [][ScalingNext]_vars

(***************************************************************************)
(* Claims about the auto-scaling policy.                                   *)
(***************************************************************************)
\* C27: evaluate never returns SCALE_UP when current_replicas is at or above
\* max_replicas, and never returns SCALE_DOWN when current_replicas is at or
\* below min_replicas, whatever the metrics snapshot.
C27_ReplicaLimits ==
    evaluated.decision # None =>
        LET m == evaluated.metrics
            action == evaluated.decision[1].action
        IN  /\ m.current_replicas >= policy.max_replicas => action # SCALE_UP
            /\ m.current_replicas <= policy.min_replicas => action # SCALE_DOWN

\* a snapshot at max_replicas whose cpu is at its up threshold was evaluated
C27_Witness ==
    /\ evaluated.decision # None
    /\ evaluated.metrics.current_replicas >= policy.max_replicas
    /\ evaluated.metrics.cpu_usage_pct # None
    /\ evaluated.metrics.cpu_usage_pct[1] >= policy.cpu_up
    /\ evaluated.decision[1].action = NO_ACTION

\* the conditions of C28, read off the snapshot and the thresholds
AtOrAbove(value, up) == value # None /\ value[1] >= up
BelowHalf(value, up) == value = None \/ 2 * value[1] < up
SomeUp(p, m) ==
    \/ AtOrAbove(m.cpu_usage_pct, p.cpu_up)
    \/ AtOrAbove(m.request_latency_p99_ms, p.latency_up)
    \/ AtOrAbove(m.failure_rate, p.failure_up)
    \/ AtOrAbove(m.queue_depth, p.queue_up)
AllBelow(p, m) ==
    /\ m.cpu_usage_pct = None \/ m.cpu_usage_pct[1] < p.cpu_down
    /\ BelowHalf(m.request_latency_p99_ms, p.latency_up)
    /\ BelowHalf(m.failure_rate, p.failure_up)
    /\ BelowHalf(m.queue_depth, p.queue_up)

\* C28: below max_replicas evaluate returns SCALE_UP exactly when some present
\* signal is at or above its up threshold; above min_replicas it returns
\* SCALE_DOWN exactly when no up condition holds and every present signal is
\* below half of its up threshold, cpu strictly below cpu_down; otherwise it
\* returns NO_ACTION.
C28_ExactDecision ==
    evaluated.decision # None =>
        LET m == evaluated.metrics
            action == evaluated.decision[1].action
        IN  /\ m.current_replicas < policy.max_replicas =>
                   (action = SCALE_UP <=> SomeUp(policy, m))
            /\ m.current_replicas > policy.min_replicas =>
                   (action = SCALE_DOWN <=> ~SomeUp(policy, m) /\ AllBelow(policy, m))
            /\ action \in {SCALE_UP, SCALE_DOWN, NO_ACTION}


(***************************************************************************)
(* The model registry (app.governance.model_registry).  Every await of a   *)
(* repository or of the audit logger is a step; a call of an adapter that  *)
(* raises has no effect and ends the registry call with that error.  The   *)
(* repository keeps the records by (model_name, version) and the latest    *)
(* saved record per name.  A call's correlation_id is its number.          *)
(***************************************************************************)
ModelNames == {"m1"}
ModelVersions == {"1.0", "2.0"}

\* repository.save(record)
RepoSave(repo, record) ==
    [store |-> (<<record.model_name, record.version>> :> record) @@ repo.store,
     latest |-> (record.model_name :> record) @@ repo.latest]
\* repository.get(model_name, version), repository.get_latest(model_name)
RepoGet(repo, model_name, version) == DictGet(repo.store, <<model_name, version>>)
RepoGetLatest(repo, model_name) == DictGet(repo.latest, model_name)

\* the checks of approve_model: the error it raises for the record found, ""
\* when it goes on
ApproveError(existing) ==
    IF existing = None THEN "Model not found"
    ELSE IF existing[1].status = "APPROVED" THEN "Model already approved"
    ELSE IF existing[1].status = "REJECTED" THEN "Cannot approve rejected model"
    ELSE ""
\* the checks of reject_model
RejectError(existing) ==
    IF existing = None THEN "Model not found"
    ELSE IF existing[1].status = "REJECTED" THEN "Model already rejected"
    ELSE ""

\* ModelRecord.is_deployable
is_deployable(record) == record.status = "APPROVED" /\ record.approved

\* the next call of the registry starts
ModelCallStarts(c) ==
    /\ mcalls[c].pc = "idle"
    /\ \A d \in ModelCall : d < c => mcalls[d].pc # "idle"

\* register_model(model_name, version): repository.save of a PENDING record
register_model(c, model_name, version) ==
    /\ ModelCallStarts(c)
    /\ LET record == ModelRecord(model_name, version, "PENDING")
       IN  /\ modelRepo' = RepoSave(modelRepo, record)
           /\ mcalls' = [mcalls EXCEPT ![c] =
                  [op |-> "register_model", version |-> Some(version),
                   pc |-> "done", existing |-> None, record |-> Some(record),
                   outcome |-> "ok", saved |-> TRUE]]
    /\ UNCHANGED modelAudit
    /\ UNCHANGED notModels

\* approve_model / reject_model up to repository.save: repository.get and
\* the checks, error being what they raise for the record found
Decide(c, op, model_name, version, error, status) ==
    /\ ModelCallStarts(c)
    /\ LET existing == RepoGet(modelRepo, model_name, version)
       IN  mcalls' = [mcalls EXCEPT ![c] =
               IF error # ""
               THEN [op |-> op, version |-> Some(version), pc |-> "done",
                     existing |-> existing, record |-> None,
                     outcome |-> "InvalidModelStateError", saved |-> FALSE]
               ELSE [op |-> op, version |-> Some(version), pc |-> "save",
                     existing |-> existing,
                     record |-> Some(ModelRecord(existing[1].model_name,
                                                 existing[1].version, status)),
                     outcome |-> "none", saved |-> FALSE]]
    /\ UNCHANGED <<modelRepo, modelAudit>>
    /\ UNCHANGED notModels

approve_model(c, model_name, version) ==
    Decide(c, "approve_model", model_name, version,
           ApproveError(RepoGet(modelRepo, model_name, version)), "APPROVED")
reject_model(c, model_name, version) ==
    Decide(c, "reject_model", model_name, version,
           RejectError(RepoGet(modelRepo, model_name, version)), "REJECTED")

\* await self._repo.save(approved_record / rejected_record)
SaveRecord(c) ==
    /\ mcalls[c].pc = "save"
    /\ modelRepo' = RepoSave(modelRepo, mcalls[c].record[1])
    /\ mcalls' = [mcalls EXCEPT ![c].pc = "audit", ![c].saved = TRUE]
    /\ UNCHANGED modelAudit
    /\ UNCHANGED notModels

\* await self._audit.log_action(...), and the return of the record
LogAction(c) ==
    /\ mcalls[c].pc = "audit"
    /\ LET record == mcalls[c].record[1]
       IN  modelAudit' = Append(modelAudit,
               [actor |-> "admin", tenant_id |-> "t1",
                action |-> IF mcalls[c].op = "approve_model"
                           THEN "model_approved" ELSE "model_rejected",
                resource_type |-> "model",
                resource_id |-> record.model_name \o "@" \o record.version,
                correlation_id |-> c])
    /\ mcalls' = [mcalls EXCEPT ![c].pc = "done", ![c].outcome = "ok"]
    /\ UNCHANGED modelRepo
    /\ UNCHANGED notModels

\* get_model(model_name, version): the record of the version, the latest
\* record when no version is given
get_model(repo, model_name, version) ==
    IF version # None THEN RepoGet(repo, model_name, version[1])
    ELSE RepoGetLatest(repo, model_name)

\* get_approved_model(model_name, version)
get_approved_model(c, model_name, version) ==
    /\ ModelCallStarts(c)
    /\ LET record == get_model(modelRepo, model_name, version)
           deployable == record # None /\ is_deployable(record[1])
       IN  mcalls' = [mcalls EXCEPT ![c] =
               [op |-> "get_approved_model", version |-> version,
                pc |-> "done", existing |-> record,
                record |-> IF deployable THEN record ELSE None,
                outcome |-> IF deployable THEN "ok" ELSE "ModelNotApprovedError",
                saved |-> FALSE]]
    /\ UNCHANGED <<modelRepo, modelAudit>>
    /\ UNCHANGED notModels

\* the repository or the audit store raises in the call a registry call
\* awaits: the registry call ends with that error
AdapterRaises(c) ==
    /\ \/ /\ mcalls[c].pc \in {"save", "audit"}
          /\ mcalls' = [mcalls EXCEPT ![c].pc = "done", ![c].outcome = "raised"]
       \/ /\ ModelCallStarts(c)
          /\ \E op \in {"register_model", "approve_model", "reject_model",
                        "get_approved_model"} :
                 mcalls' = [mcalls EXCEPT ![c] =
                     [NoModelCall EXCEPT !.op = op, !.pc = "done",
                                         !.outcome = "raised"]]
    /\ UNCHANGED <<modelRepo, modelAudit>>
    /\ UNCHANGED notModels

ModelsInit ==
    /\ IngestInit
    /\ IdleBut("models")
    /\ ModelsIdle

ModelsNext ==
    \E c \in ModelCall :
        \/ \E n \in ModelNames, v \in ModelVersions :
               \/ register_model(c, n, v)
               \/ approve_model(c, n, v)
               \/ reject_model(c, n, v)
        \/ \E n \in ModelNames, v \in {None} \cup {Some(x) : x \in ModelVersions} :
               get_approved_model(c, n, v)
        \/ SaveRecord(c)
        \/ LogAction(c)
        \/ AdapterRaises(c)

SpecModels == ModelsInit /\ [][ModelsNext]_vars

(***************************************************************************)
(* Claims about the model registry.                                        *)
(***************************************************************************)
\* the audit records call c has emitted
AuditsOf(c) == {i \in 1..Len(modelAudit) : modelAudit[i].correlation_id = c}
FoundPending(existing) == existing # None /\ existing[1].status = "PENDING"

\* C29: approve_model succeeds only on an existing PENDING record (it fails on
\* a missing, APPROVED or REJECTED record), reject_model succeeds only on an
\* existing record that is not yet REJECTED, each success emits exactly one
\* audit record, each failure leaves the record and the audit log unchanged,
\* and get_approved_model returns a record only when its status is APPROVED.
C29_ApproveRejectContract ==
    \A c \in ModelCall :
        mcalls[c].pc = "done" =>
            LET call == mcalls[c]
                decision == call.op \in {"approve_model", "reject_model"}
            IN  /\ call.op = "approve_model" =>
                       (call.outcome = "ok" => FoundPending(call.existing))
                /\ call.op = "approve_model" /\ ~FoundPending(call.existing) =>
                       call.outcome # "ok"
                /\ call.op = "reject_model" /\ call.outcome = "ok" =>
                       /\ call.existing # None
                       /\ call.existing[1].status # "REJECTED"
                /\ decision /\ call.outcome = "ok" =>
                       Cardinality(AuditsOf(c)) = 1
                /\ decision /\ call.outcome # "ok" =>
                       ~call.saved /\ AuditsOf(c) = {}
                /\ call.op = "get_approved_model" /\ call.outcome = "ok" =>
                       /\ call.record # None
                       /\ call.record[1].status = "APPROVED"


(***************************************************************************)
(* The prompt registry (app.governance.prompt_registry).  Every await of   *)
(* the repository or of the audit logger is a step.  The repository keeps  *)
(* every saved record; its latest record of a prompt_id is the first one   *)
(* saved among those of the highest version.  A call's content and         *)
(* correlation_id are its number.                                          *)
(***************************************************************************)
PromptIds == {"p1", "p2"}

\* PromptRecord(prompt_id, version, content)
PromptVersion(prompt_id, version, content) ==
    PromptRecord(prompt_id, version) @@ [content |-> content]

\* the positions of the records of prompt_id in the store
Matches(store, prompt_id) ==
    {i \in 1..Len(store) : store[i].prompt_id = prompt_id}

\* repository.get(prompt_id, None): max(matches, key=version)
PromptLatest(store, prompt_id) ==
    LET matches == Matches(store, prompt_id)
        top == {i \in matches :
                   \A j \in matches : store[j].version <= store[i].version}
    IN  IF matches = {} THEN None
        ELSE Some(store[CHOOSE i \in top : \A j \in top : i <= j])

\* the next call of the registry starts
PromptCallStarts(c) ==
    /\ pcalls[c].pc = "idle"
    /\ \A d \in PromptCall : d < c => pcalls[d].pc # "idle"

\* register_prompt(prompt_id, ...) up to log_action: repository.save of
\* version 1
register_prompt(c, prompt_id) ==
    /\ PromptCallStarts(c)
    /\ LET record == PromptVersion(prompt_id, 1, c)
       IN  /\ promptStore' = Append(promptStore, record)
           /\ pcalls' = [pcalls EXCEPT ![c] =
                  [op |-> "register_prompt", prompt_id |-> prompt_id,
                   pc |-> "audit", record |-> Some(record), outcome |-> "none"]]
    /\ UNCHANGED promptAudit
    /\ UNCHANGED notPrompts

\* update_prompt(prompt_id, ...) up to repository.save: repository.get of
\* the latest record and the new record built from it
update_prompt(c, prompt_id) ==
    /\ PromptCallStarts(c)
    /\ LET existing == PromptLatest(promptStore, prompt_id)
       IN  pcalls' = [pcalls EXCEPT ![c] =
               IF existing = None
               THEN [op |-> "update_prompt", prompt_id |-> prompt_id,
                     pc |-> "done", record |-> None, outcome |-> "ValueError"]
               ELSE [op |-> "update_prompt", prompt_id |-> prompt_id,
                     pc |-> "save",
                     record |-> Some(PromptVersion(prompt_id,
                                         existing[1].version + 1, c)),
                     outcome |-> "none"]]
    /\ UNCHANGED <<promptStore, promptAudit>>
    /\ UNCHANGED notPrompts

\* await self._repo.save(record) of update_prompt
UpdateSave(c) ==
    /\ pcalls[c].pc = "save"
    /\ promptStore' = Append(promptStore, pcalls[c].record[1])
    /\ pcalls' = [pcalls EXCEPT ![c].pc = "audit"]
    /\ UNCHANGED promptAudit
    /\ UNCHANGED notPrompts

\* await self._audit.log_action(...), and the return of the record
PromptAudit(c) ==
    /\ pcalls[c].pc = "audit"
    /\ LET record == pcalls[c].record[1]
       IN  promptAudit' = Append(promptAudit,
               [action |-> IF pcalls[c].op = "register_prompt"
                           THEN "prompt_registered" ELSE "prompt_updated",
                resource_type |-> "prompt",
                resource_id |-> <<record.prompt_id, "@", record.version>>,
                correlation_id |-> c])
    /\ pcalls' = [pcalls EXCEPT ![c].pc = "done", ![c].outcome = "ok"]
    /\ UNCHANGED promptStore
    /\ UNCHANGED notPrompts

\* the repository or the audit store raises in the call a registry call
\* awaits: the registry call ends with that error
PromptAdapterRaises(c) ==
    /\ \/ /\ pcalls[c].pc \in {"save", "audit"}
          /\ pcalls' = [pcalls EXCEPT ![c].pc = "done", ![c].outcome = "raised"]
       \/ /\ PromptCallStarts(c)
          /\ \E op \in {"register_prompt", "update_prompt"}, p \in PromptIds :
                 pcalls' = [pcalls EXCEPT ![c] =
                     [NoPromptCall EXCEPT !.op = op, !.prompt_id = p,
                                          !.pc = "done", !.outcome = "raised"]]
    /\ UNCHANGED <<promptStore, promptAudit>>
    /\ UNCHANGED notPrompts

PromptsInit ==
    /\ IngestInit
    /\ IdleBut("prompts")
    /\ PromptsIdle

PromptsNext ==
    \E c \in PromptCall :
        \/ \E p \in PromptIds : register_prompt(c, p) \/ update_prompt(c, p)
        \/ UpdateSave(c)
        \/ PromptAudit(c)
        \/ PromptAdapterRaises(c)

SpecPrompts == PromptsInit /\ [][PromptsNext]_vars

(***************************************************************************)
(* Claims about the prompt registry.                                       *)
(***************************************************************************)
\* the highest version stored for prompt_id, 0 when there is none
MaxVersion(store, prompt_id) ==
    IF Matches(store, prompt_id) = {} THEN 0
    ELSE LET i == CHOOSE i \in Matches(store, prompt_id) :
                      \A j \in Matches(store, prompt_id) :
                          store[j].version <= store[i].version
         IN  store[i].version
VersionsUnique ==
    \A i, j \in 1..Len(promptStore) :
        /\ i # j
        /\ promptStore[i].prompt_id = promptStore[j].prompt_id
        => promptStore[i].version # promptStore[j].version
UpdateStoresNext ==
    \A c \in PromptCall :
        UpdateSave(c) =>
            pcalls[c].record[1].version =
                MaxVersion(promptStore, pcalls[c].prompt_id) + 1
StoredKept ==
    /\ Len(promptStore') >= Len(promptStore)
    /\ \A i \in 1..Len(promptStore) : promptStore'[i] = promptStore[i]

\* C30: after any sequence or interleaving of register_prompt and
\* update_prompt calls on one prompt_id, every stored version is unique, each
\* update_prompt produced version n+1 where n was the maximum existing
\* version, and no stored (prompt_id, version) record was replaced or changed.
C30_VersionsMonotonic ==
    /\ [](VersionsUnique)
    /\ [][UpdateStoresNext /\ StoredKept]_vars


(***************************************************************************)
(* The approval workflow (app.governance.approval_workflow) and the RBAC   *)
(* matrix (app.security.rbac).  Every await of the repository or of the    *)
(* audit logger is a step.  A call's correlation_id is its number, and a   *)
(* request's created_at the number of the call that created it.            *)
(***************************************************************************)
Role == {"ADMIN", "ANALYST", "APPROVER", "VIEWER"}
RequestIds == {"req-1"}

\* _ACTION_PERMISSIONS, the pairs that are True
_ACTION_PERMISSIONS ==
    {<<"ADMIN", "create">>, <<"ADMIN", "approve">>, <<"ADMIN", "view">>,
     <<"ADMIN", "register_model">>, <<"ANALYST", "create">>,
     <<"ANALYST", "view">>, <<"APPROVER", "approve">>, <<"APPROVER", "view">>,
     <<"VIEWER", "view">>}

\* RBACService.check_permission: TRUE when it returns, FALSE when it raises
\* AuthorizationError
check_permission(role, action) == <<role, action>> \in _ACTION_PERMISSIONS

ApprovalRequest(request_id, status, created_at, decided_by) ==
    [request_id |-> request_id, status |-> status, created_at |-> created_at,
     decided_by |-> decided_by]

\* the next call of the workflow starts
ApprovalCallStarts(c) ==
    /\ acalls[c].pc = "idle"
    /\ \A d \in ApprovalCall : d < c => acalls[d].pc # "idle"

\* request_approval(request_id, ...) up to log_action: repository.save of a
\* PENDING request
request_approval(c, request_id) ==
    /\ ApprovalCallStarts(c)
    /\ LET request == ApprovalRequest(request_id, "PENDING", c, None)
       IN  /\ approvalStore' = (request_id :> request) @@ approvalStore
           /\ acalls' = [acalls EXCEPT ![c] =
                  [NoApprovalCall EXCEPT !.op = "request_approval",
                       !.request_id = request_id, !.pc = "audit",
                       !.record = Some(request), !.saved = TRUE]]
    /\ UNCHANGED approvalAudit
    /\ UNCHANGED notApprovals

\* approve / reject up to repository.save: check_permission, repository.get
\* and the checks of the request found
Decision(c, op, request_id, role, status) ==
    /\ ApprovalCallStarts(c)
    /\ LET request == DictGet(approvalStore, request_id)
           call == [NoApprovalCall EXCEPT !.op = op, !.request_id = request_id,
                                          !.role = role]
       IN  acalls' = [acalls EXCEPT ![c] =
               IF ~check_permission(role, "approve")
               THEN [call EXCEPT !.pc = "done", !.outcome = "AuthorizationError"]
               ELSE IF request = None \/ request[1].status # "PENDING"
               THEN [call EXCEPT !.pc = "done", !.request = request,
                                 !.outcome = "InvalidWorkflowStateError"]
               ELSE [call EXCEPT !.pc = "save", !.request = request,
                        !.record = Some(ApprovalRequest(request[1].request_id,
                                       status, request[1].created_at, Some(c)))]]
    /\ UNCHANGED <<approvalStore, approvalAudit>>
    /\ UNCHANGED notApprovals

approve(c, request_id, approver_role) ==
    Decision(c, "approve", request_id, approver_role, "APPROVED")
reject(c, request_id, rejector_role) ==
    Decision(c, "reject", request_id, rejector_role, "REJECTED")

\* await self._repo.save(approved / rejected)
ApprovalSave(c) ==
    /\ acalls[c].pc = "save"
    /\ approvalStore' =
           (acalls[c].request_id :> acalls[c].record[1]) @@ approvalStore
    /\ acalls' = [acalls EXCEPT ![c].pc = "audit", ![c].saved = TRUE]
    /\ UNCHANGED approvalAudit
    /\ UNCHANGED notApprovals

\* await self._audit.log_action(...), and the return of the request
ApprovalAudit(c) ==
    /\ acalls[c].pc = "audit"
    /\ approvalAudit' = Append(approvalAudit,
           [action |-> CASE acalls[c].op = "approve" -> "approval_approved"
                         [] acalls[c].op = "reject" -> "approval_rejected"
                         [] OTHER -> "approval_requested",
            metadata |-> [request_id |-> acalls[c].request_id],
            correlation_id |-> c])
    /\ acalls' = [acalls EXCEPT ![c].pc = "done", ![c].outcome = "ok"]
    /\ UNCHANGED approvalStore
    /\ UNCHANGED notApprovals

\* the repository or the audit store raises in the call a workflow call
\* awaits: the workflow call ends with that error
ApprovalAdapterRaises(c) ==
    /\ acalls[c].pc \in {"save", "audit"}
    /\ acalls' = [acalls EXCEPT ![c].pc = "done", ![c].outcome = "raised"]
    /\ UNCHANGED <<approvalStore, approvalAudit>>
    /\ UNCHANGED notApprovals

ApprovalsInit ==
    /\ IngestInit
    /\ IdleBut("approvals")
    /\ ApprovalsIdle

ApprovalsNext ==
    \E c \in ApprovalCall :
        \/ \E r \in RequestIds : request_approval(c, r)
        \/ \E r \in RequestIds, role \in Role : approve(c, r, role)
        \/ \E r \in RequestIds, role \in Role : reject(c, r, role)
        \/ ApprovalSave(c)
        \/ ApprovalAudit(c)
        \/ ApprovalAdapterRaises(c)

SpecApprovals == ApprovalsInit /\ [][ApprovalsNext]_vars

(***************************************************************************)
(* Claims about the approval workflow.                                     *)
(***************************************************************************)
Decides(c) == acalls[c].op \in {"approve", "reject"}
\* the decision audit records call c has written
DecisionAuditsOf(c) ==
    {i \in 1..Len(approvalAudit) :
        /\ approvalAudit[i].correlation_id = c
        /\ approvalAudit[i].action \in {"approval_approved", "approval_rejected"}}

\* C31: a request is decided only from PENDING and only by ADMIN or APPROVER;
\* approve or reject by ANALYST or VIEWER fails with an authorization error
\* and changes nothing; and whatever the interleaving of approve and reject
\* calls, each request gets at most one decision and at most one decision
\* audit record, the decision keeping request_id and created_at.
C31_OneDecision ==
    /\ \A c \in ApprovalCall :
           Decides(c) =>
               /\ acalls[c].role \in {"ANALYST", "VIEWER"} /\ acalls[c].pc = "done" =>
                      /\ acalls[c].outcome = "AuthorizationError"
                      /\ ~acalls[c].saved
                      /\ DecisionAuditsOf(c) = {}
               /\ acalls[c].saved =>
                      /\ acalls[c].role \in {"ADMIN", "APPROVER"}
                      /\ acalls[c].request # None
                      /\ acalls[c].request[1].status = "PENDING"
                      /\ acalls[c].record[1].request_id = acalls[c].request[1].request_id
                      /\ acalls[c].record[1].created_at = acalls[c].request[1].created_at
    /\ \A c, d \in ApprovalCall :
           /\ Decides(c) /\ Decides(d) /\ c # d
           /\ acalls[c].request # None
           /\ acalls[c].request = acalls[d].request
           => /\ ~(acalls[c].saved /\ acalls[d].saved)
              /\ DecisionAuditsOf(c) = {} \/ DecisionAuditsOf(d) = {}


(***************************************************************************)
(* Tenant isolation: TenantContext.validate_access, EventService.get_event *)
(* over the event store, and the workflow snapshot read by run, called for *)
(* one event_id by the two tenants.                                        *)
(***************************************************************************)
\* TenantContext.validate_access: the error it raises, "ok" when it returns
validate_access(resource_tenant, request_tenant) ==
    IF resource_tenant = "" \/ request_tenant = "" THEN "TenantIsolationError"
    ELSE IF resource_tenant # request_tenant THEN "TenantIsolationError"
    ELSE "ok"

\* EventService.get_event over RedisEventRepository.get
get_event(tenant_id, event_id) ==
    LET raw == get_cache(_event_key(tenant_id, event_id))
    IN  IF raw = None THEN None
        ELSE Some(_persisted_to_response(EventFromJson(raw[1])))

ValidateAccess(resource_tenant, request_tenant) ==
    /\ access' = [NoAccess EXCEPT !.op = "validate_access",
                      !.resource_tenant = resource_tenant,
                      !.request_tenant = request_tenant,
                      !.outcome = validate_access(resource_tenant, request_tenant)]
    /\ UNCHANGED redis
    /\ UNCHANGED notTenant

GetEvent(tenant_id, event_id) ==
    /\ access' = [NoAccess EXCEPT !.op = "get_event",
                      !.request_tenant = tenant_id, !.event_id = event_id,
                      !.outcome = "ok", !.data = get_event(tenant_id, event_id)]
    /\ UNCHANGED redis
    /\ UNCHANGED notTenant

\* RedisEventRepository.save of an event of the tenant
RepositorySave(tenant_id, event_id) ==
    /\ LET event == [event_id |-> event_id, tenant_id |-> tenant_id,
                     status |-> "CREATED", created_at |-> 0, metadata |-> None,
                     type |-> "RiskEvent"]
       IN  redis' = set_cache(_event_key(event.tenant_id, event.event_id),
                        EventPayloadJson(PersistedEvent(event, "c-" \o tenant_id)))
    /\ UNCHANGED access
    /\ UNCHANGED notTenant

\* the states passed to run: one event_id, submitted by either tenant
TenantInputs ==
    { [kind |-> "risk",
       state |-> RiskState("e1", t, "c-" \o t, RawEventOf("e1"))] : t \in Tenants }

TenantsInit ==
    /\ IngestInit
    /\ IdleBut("workflow")
    /\ hasStore = TRUE
    /\ registry \in RegistrySetups
    /\ observed = FALSE
    /\ RunsIdle

TenantsNext ==
    \/ \E w \in Run : RunCallWith(w, TenantInputs)
    \/ \E w \in Run : ResolveVersions(w)
    \/ \E w \in Run : RunNode(w)
    \/ \E w \in Run : WriteSnapshot(w)
    \/ \E t \in Tenants : RepositorySave(t, "e1")
    \/ \E t \in Tenants : GetEvent(t, "e1")
    \/ \E rt \in Tenants \cup {""}, qt \in Tenants \cup {""} : ValidateAccess(rt, qt)

SpecTenants == TenantsInit /\ [][TenantsNext]_vars

\* C32: an access to a resource of tenant t1 from a request of tenant t2 # t1
\* fails with a tenant-isolation error and yields none of t1's data:
\* validate_access raises, get_event gives no event of another tenant, and
\* the state run returns carries the tenant_id of the state it was given.
C32_TenantIsolation ==
    /\ access.op = "validate_access"
       /\ access.resource_tenant # access.request_tenant
       => access.outcome = "TenantIsolationError"
    /\ access.op = "get_event" /\ access.data # None
       => access.data[1].tenant_id = access.request_tenant
    /\ \A w \in Run :
           RunReturned(w) =>
               wresult[w].state.tenant_id = wcall[w].state.tenant_id


(***************************************************************************)
(* Cache keys of two (tenant, id) pairs.  The tenant id is the stripped    *)
(* X-Tenant-ID header and the id the stripped X-Idempotency-Key header or  *)
(* the event id: any non-blank strings.                                    *)
(***************************************************************************)
KeyTenants == {"a", "a:b", "b"}
KeyIds == {"c", "b:c", "a"}
KeyFamilies == {"idempotency", "event"}

\* the key the core builds for a pair in a family
KeyOf(family, pair) ==
    IF family = "idempotency" THEN _idempotency_key(pair[1], pair[2])
    ELSE _event_key(pair[1], pair[2])

BuildKeys ==
    /\ built.keys = None
    /\ built' = [built EXCEPT !.keys = Some(<<KeyOf(built.family, built.first),
                                              KeyOf(built.family, built.second)>>)]
    /\ UNCHANGED notKeys

KeysInit ==
    /\ IngestInit
    /\ IdleBut("keys")
    /\ built \in { ToBuild(family, first, second) :
                       family \in KeyFamilies,
                       first \in KeyTenants \X KeyIds,
                       second \in KeyTenants \X KeyIds }

KeysNext == BuildKeys

SpecKeys == KeysInit /\ [][KeysNext]_vars

\* C33: two distinct pairs (tenant, idempotency key) or (tenant, event id)
\* with different non-empty tenant ids get different cache keys.
C33_NoKeyCollision ==
    built.keys # None
    /\ built.first # built.second
    /\ built.first[1] # built.second[1]
    /\ built.first[1] # "" /\ built.second[1] # ""
    => built.keys[1][1] # built.keys[1][2]


(***************************************************************************)
(* The status lifecycle of a domain event: BaseEvent.transition_to.        *)
(***************************************************************************)
_STATUS_TRANSITIONS ==
    [RECEIVED |-> {"VALIDATED", "REJECTED"},
     CREATED |-> {"VALIDATED", "REJECTED"},
     VALIDATED |-> {"PROCESSING"},
     PROCESSING |-> {"APPROVED", "REJECTED", "FAILED"},
     APPROVED |-> {},
     REJECTED |-> {},
     FAILED |-> {}]

\* a variant in which a decided event can be processed again
_validate_transition_reopens(status, new) ==
    IF new \in _STATUS_TRANSITIONS[status] \/ new = "PROCESSING" THEN "ok"
    ELSE "InvalidStatusTransitionError"

\* the error _validate_transition raises, "ok" when it returns
_validate_transition(status, new) ==
    IF new \in _STATUS_TRANSITIONS[status] THEN "ok"
    ELSE "InvalidStatusTransitionError"

\* the current status of the event
StatusOf(event) == event.path[Len(event.path)]

transition_to(new_status) ==
    LET checked == _validate_transition(StatusOf(lifecycle), new_status)
    IN  /\ lifecycle' =
               [path |-> IF checked = "ok" THEN Append(lifecycle.path, new_status)
                         ELSE lifecycle.path,
                asked |-> new_status,
                outcome |-> checked]
        /\ UNCHANGED notLifecycle

LifecycleInit ==
    /\ IngestInit
    /\ IdleBut("lifecycle")
    /\ lifecycle \in { NewEvent(status) : status \in DOMAIN EventStatus }

LifecycleNext == \E new_status \in DOMAIN EventStatus : transition_to(new_status)

SpecLifecycle == LifecycleInit /\ [][LifecycleNext]_vars

\* the edges the statuses may follow
StatusEdges ==
    ({"RECEIVED", "CREATED"} \X {"VALIDATED", "REJECTED"})
        \cup {<<"VALIDATED", "PROCESSING">>}
        \cup ({"PROCESSING"} \X {"APPROVED", "REJECTED", "FAILED"})

\* a call along an edge sets the status, any other call raises and leaves it
FollowsEdges ==
    LET status == StatusOf(lifecycle)
    IN  IF <<status, lifecycle'.asked>> \in StatusEdges
        THEN /\ lifecycle'.outcome = "ok"
             /\ StatusOf(lifecycle') = lifecycle'.asked
        ELSE /\ lifecycle'.outcome = "InvalidStatusTransitionError"
             /\ StatusOf(lifecycle') = status

\* APPROVED, REJECTED and FAILED are never left
TerminalKept ==
    StatusOf(lifecycle) \in {"APPROVED", "REJECTED", "FAILED"}
        => StatusOf(lifecycle') = StatusOf(lifecycle)

\* C34: transition_to follows only the edges RECEIVED or CREATED to
\* VALIDATED or REJECTED, VALIDATED to PROCESSING, PROCESSING to APPROVED,
\* REJECTED or FAILED; any other call raises InvalidStatusTransitionError
\* and leaves the status unchanged, so APPROVED, REJECTED and FAILED are
\* terminal.
C34_StatusLifecycle == [][FollowsEdges /\ TerminalKept]_vars

C34_Witness ==
    /\ lifecycle.path = <<"RECEIVED", "VALIDATED", "PROCESSING", "APPROVED">>
    /\ lifecycle.asked = "PROCESSING"
    /\ lifecycle.outcome = "InvalidStatusTransitionError"


(***************************************************************************)
(* Claims about calls that overlap at the circuit breaker.                 *)
(***************************************************************************)
\* call d was admitted by the OPEN breaker after the recovery timeout and
\* its function has not ended
ProbeInFlight(d) == cpc[d] = "func" /\ clog[d].seen = OPEN

\* C35: after the recovery timeout exactly one probe is admitted: while a
\* call admitted as the probe is still in flight and the breaker HALF_OPEN,
\* every other call is rejected, not passed to its function.
C35_OneProbe ==
    [][\A c, d \in Call :
         c # d /\ ProbeInFlight(d) /\ cb.state = HALF_OPEN /\ Admission(c)
           => cpc'[c] = "done" /\ clog'[c].outcome = "open"]_vars

\* call c was admitted before the breaker opened and its function ends in
\* this step
StragglerEnds(c) == clog[c].seen = CLOSED /\ (Succeeds(c) \/ Fails(c))

\* C39: an OPEN breaker becomes CLOSED only by way of HALF_OPEN; the end of a
\* call admitted before the breaker opened leaves it OPEN and does not reset
\* the failure counter.
C39_OpenUntilProbe ==
    [][cb.state = OPEN =>
         /\ cb'.state # CLOSED
         /\ \A c \in Call :
                StragglerEnds(c) =>
                    cb'.state = OPEN /\ cb'.failures >= cb.failures]_vars


\* C36: release(key) by a caller that never successfully acquired key is a
\* no-op: it deletes no lock entry, and it leaves the tokens of the instance
\* as they are, so that the holder's later release still takes effect.
C36_ReleaseWithoutAcquire ==
    [][\A key \in LockKeys :
         ( /\ LockCalled /\ LastCall.op = "release" /\ LastCall.key = key
           /\ OwnToken(LastCall.holder, key) = None )
         => redis' = redis /\ lockTokens' = lockTokens]_vars


\* the task of submission s ends in this step
TaskEnds(s) == Running(s) /\ ~(subs'[s].pc = "running")

\* C37: every accepted submission resolves with its task's result or its
\* task's exception once the task has ended, and a task that raises does not
\* stop the worker: when a task ends, its submission is done with one of the
\* two outcomes and the worker task is still alive for the submissions
\* queued behind it.
C37_RaisingTaskKeepsWorker ==
    [][\A s \in Sub :
         TaskEnds(s) =>
             /\ subs'[s].pc = "done"
             /\ subs'[s].outcome \in {"result", "raised"}
             /\ bh'.worker \in {"get", "task"}]_vars


\* runs w and q are for one event_id, both have started and neither has
\* ended: both started before either has written the snapshot
Interleaved(w, q) ==
    /\ w # q
    /\ wpc[w] \notin {"idle", "done"} /\ wpc[q] \notin {"idle", "done"}
    /\ wcall[w].kind = wcall[q].kind
    /\ wcall[w].state.event_id = wcall[q].state.event_id

\* C38: when two runs for the same event_id interleave on a workflow with a
\* state store, each node is executed and audited at most once for that
\* event_id: no node is executed by both runs.
C38_NodesOncePerEvent ==
    \A w, q \in Run :
        hasStore /\ Interleaved(w, q) => Executed(w) \cap Executed(q) = {}


\* the status stored for (model_name, version), None when nothing is stored
StoredStatus(repo, model_name, version) ==
    LET record == RepoGet(repo, model_name, version)
    IN  IF record = None THEN None ELSE Some(record[1].status)

\* a rejection of (model_name, version) has been audited
WasRejected(model_name, version) ==
    \E i \in 1..Len(modelAudit) :
        /\ modelAudit[i].action = "model_rejected"
        /\ modelAudit[i].resource_id = model_name \o "@" \o version

\* C40: a record that has been REJECTED is never APPROVED afterwards, and a
\* record that has been APPROVED never returns to PENDING.
C40_DecisionsFinal ==
    /\ [](\A n \in ModelNames, v \in ModelVersions :
            WasRejected(n, v) => StoredStatus(modelRepo, n, v) # Some("APPROVED"))
    /\ [][\A n \in ModelNames, v \in ModelVersions :
            /\ StoredStatus(modelRepo, n, v) = Some("REJECTED")
                 => StoredStatus(modelRepo', n, v) # Some("APPROVED")
            /\ StoredStatus(modelRepo, n, v) = Some("APPROVED")
                 => StoredStatus(modelRepo', n, v) # Some("PENDING")]_vars

====
